---- MODULE Spec2Model ----
(***************************************************************************)
(* Tank Tank network layer (src/network_tcp.py): two NetworkPeer objects,  *)
(* the host (is_server=True) and the client, each with its connection      *)
(* thread, its sender loop, its receiver loop and the game-loop thread     *)
(* that calls send(), recv_all() and stop().                               *)
(*                                                                         *)
(* Granularity.  Every thread has a program counter; one step of a thread  *)
(* is one blocking call or one loop iteration of the source.  The public   *)
(* methods send() and stop() are one step each; recv_all() is one step per *)
(* iteration of its while loop, so the receiver thread can enqueue while   *)
(* it runs.  The byte stream is modelled record by record: one element of  *)
(* wire is one newline-terminated record, and one recv() returns a         *)
(* non-empty run of whole records.                                         *)
(***************************************************************************)
EXTENDS Integers, Sequences, FiniteSets, TLC

Peers == {"host", "client"}

Other(p) == IF p = "host" THEN "client" ELSE "host"

(***************************************************************************)
(* Program constants.                                                      *)
(***************************************************************************)
\* _client_loop: max_retries = 30
max_retries == 30

\* _send_loop: while len(messages) < 5
BATCH_MAX == 5

(***************************************************************************)
(* Bounds of the model.                                                    *)
(***************************************************************************)
\* send() calls, of both peers together, in the general specification
MaxSend == 2

\* send() calls of the host in the burst specification (more than BATCH_MAX,
\* so that a batch is cut at 5 with messages still queued)
MaxBurst == 6

\* send() calls in the game-message specification
MaxGameSend == 2

\* records a foreign writer puts on the stream
MaxForeign == 2

\* bytes written to the stream of the receiver that is fed byte by byte
MaxStream == 5

\* the width and the height of the map in tiles (32 x 32 in the source)
MapWidth == 3

MapHeight == 2

\* NetworkManager objects the application creates on one side
MaxSession == 2

\* send() calls, of both peers together, in the fair specifications
MaxLiveSend == 2

\* Frames of the game each side runs.
MaxTick == 2

\* Frames of the game each side runs where the keys of the user vary.
MaxInputTick == 1

\* Frames of the game each side runs over two periods of the snapshot, and
\* those of them in which the user of the host presses keys.
MaxPeriodTick == 61
MaxBusy == 1

(***************************************************************************)
(* Python values and JSON texts.  A Python value is a tagged pair; a dict  *)
(* is the sequence of its (key, value) items in insertion order.  A JSON   *)
(* text is its parse tree: an object's member names are always strings.    *)
(***************************************************************************)
PInt(n) == <<"int", n>>
PFloat(x) == <<"float", x>>
PStr(s) == <<"str", s>>
PBool(b) == <<"bool", b>>
PNone == <<"none", 0>>
PList(s) == <<"list", s>>
PDict(items) == <<"dict", items>>

\* json.dumps coerces a dict key that is not a str: int -> its decimal
\* text, True/False -> "true"/"false", None -> "null", float -> its repr.
KeyText(k) ==
  CASE k[1] = "str" -> k[2]
    [] k[1] = "int" -> ToString(k[2])
    [] k[1] = "float" -> ToString(k[2])
    [] k[1] = "bool" -> (IF k[2] THEN "true" ELSE "false")
    [] OTHER -> "null"

RECURSIVE JsonDumps(_)
\* json.dumps(msg): the JSON text of a Python value.
JsonDumps(v) ==
  CASE v[1] = "int" -> <<"jint", v[2]>>
    [] v[1] = "float" -> <<"jreal", v[2]>>
    [] v[1] = "str" -> <<"jstr", v[2]>>
    [] v[1] = "bool" -> <<"jbool", v[2]>>
    [] v[1] = "none" -> <<"jnull", 0>>
    [] v[1] = "list" ->
         <<"jarr", [i \in 1..Len(v[2]) |-> JsonDumps(v[2][i])]>>
    [] OTHER ->
         <<"jobj", [i \in 1..Len(v[2]) |->
                      <<KeyText(v[2][i][1]), JsonDumps(v[2][i][2])>>]>>

\* d[k] = x on a dict given as its item sequence: an existing key keeps its
\* place and takes the new value, a new key goes to the end.
DictSet(items, k, x) ==
  IF \E i \in 1..Len(items) : items[i][1] = k
  THEN [i \in 1..Len(items) |->
          IF items[i][1] = k THEN <<k, x>> ELSE items[i]]
  ELSE Append(items, <<k, x>>)

RECURSIVE JsonLoads(_)
RECURSIVE LoadMembers(_, _)
\* The dict json.loads builds from an object's members, left to right.
LoadMembers(members, acc) ==
  IF members = <<>> THEN acc
  ELSE LoadMembers(Tail(members),
                   DictSet(acc, PStr(Head(members)[1]),
                           JsonLoads(Head(members)[2])))

\* json.loads(text): the Python value of a JSON text.
JsonLoads(j) ==
  CASE j[1] = "jint" -> PInt(j[2])
    [] j[1] = "jreal" -> PFloat(j[2])
    [] j[1] = "jstr" -> PStr(j[2])
    [] j[1] = "jbool" -> PBool(j[2])
    [] j[1] = "jnull" -> PNone
    [] j[1] = "jarr" -> PList([i \in 1..Len(j[2]) |-> JsonLoads(j[2][i])])
    [] OTHER -> PDict(LoadMembers(j[2], <<>>))

(***************************************************************************)
(* Messages.                                                               *)
(***************************************************************************)
Item(k, v) == <<PStr(k), v>>

\* test_network_tcp.py, server mode: the message of round i of the send
\* loop (for i in range(5)).
ServerMsg(i) ==
  PDict(<<Item("type", PStr("test")),
          Item("message", PStr("Server message " \o ToString(i))),
          Item("count", PInt(i))>>)

\* test_network_tcp.py, client mode: the reply of round i.
ClientMsg(i) ==
  PDict(<<Item("type", PStr("reply")),
          Item("message", PStr("Client reply " \o ToString(i)))>>)

\* The message the harness passes to send() on peer p in round i; the
\* rounds count from 0.
HarnessMsg(p, i) == IF p = "host" THEN ServerMsg(i) ELSE ClientMsg(i)

(***************************************************************************)
(* The messages of the game, with the fields their constructors give them  *)
(* and representative values: player 1 is "Ann", positions are floats, the *)
(* map is cut down to four tiles.                                          *)
(***************************************************************************)
\* NetworkManager.join_game (JOIN)
join_game ==
  PDict(<<Item("type", PStr("player_join")),
          Item("player_id", PInt(1)),
          Item("name", PStr("Ann"))>>)

\* NetworkManager.player_names on the host after _handle_message stored the
\* JOIN: player_names[player_id] = player_name, the key being the int the
\* JOIN carried.
player_names == PDict(<< <<PInt(1), PStr("Ann")>> >>)

\* NetworkManager.send_player_list (ROSTER)
send_player_list ==
  PDict(<<Item("type", PStr("player_list")),
          Item("players", player_names)>>)

\* NetworkManager.broadcast_start_game (START)
broadcast_start_game ==
  PDict(<<Item("type", PStr("start_game")),
          Item("num_players", PInt(1)),
          Item("map", PList(<<PInt(1), PInt(0), PInt(2), PInt(1)>>)),
          Item("map_width", PInt(32)),
          Item("map_height", PInt(32))>>)

\* GameInstance._send_player_input (INPUT)
send_player_input(id) ==
  PDict(<<Item("type", PStr("player_input")),
          Item("player_id", PInt(id)),
          Item("dx", PInt(-1)),
          Item("dy", PInt(0)),
          Item("shoot", PBool(TRUE)),
          Item("place_mine", PBool(FALSE)),
          Item("x", PFloat(100)),
          Item("y", PFloat(50)),
          Item("direction", PInt(3))>>)

\* GameInstance._send_position_sync (heartbeat)
send_position_sync(id) ==
  PDict(<<Item("type", PStr("position_sync")),
          Item("player_id", PInt(id)),
          Item("x", PFloat(100)),
          Item("y", PFloat(50)),
          Item("direction", PInt(3))>>)

\* GameInstance._send_bullet_spawn
send_bullet_spawn ==
  PDict(<<Item("type", PStr("bullet_spawn")),
          Item("x", PFloat(100)),
          Item("y", PFloat(50)),
          Item("vx", PFloat(-3)),
          Item("vy", PFloat(0)),
          Item("owner_id", PInt(1))>>)

\* GameInstance._send_item_spawn
send_item_spawn ==
  PDict(<<Item("type", PStr("item_spawn")),
          Item("x", PInt(64)),
          Item("y", PInt(72)),
          Item("item_type", PInt(1))>>)

\* GameInstance._send_item_pickup
send_item_pickup ==
  PDict(<<Item("type", PStr("item_pickup")),
          Item("x", PInt(64)),
          Item("y", PInt(72)),
          Item("player_id", PInt(1)),
          Item("item_type", PInt(1))>>)

\* GameInstance._send_player_damage
send_player_damage ==
  PDict(<<Item("type", PStr("player_damage")),
          Item("player_id", PInt(1)),
          Item("hp", PInt(0)),
          Item("died", PBool(TRUE)),
          Item("attacker_id", PInt(0)),
          Item("x", PFloat(100)),
          Item("y", PFloat(50))>>)

\* GameInstance._send_explosion
send_explosion ==
  PDict(<<Item("type", PStr("explosion")),
          Item("x", PFloat(100)),
          Item("y", PFloat(50))>>)

\* GameInstance._send_mine_spawn
send_mine_spawn ==
  PDict(<<Item("type", PStr("mine_spawn")),
          Item("x", PFloat(100)),
          Item("y", PFloat(50)),
          Item("owner_id", PInt(0))>>)

\* GameInstance._send_game_state (snapshot): one entry of players_data, one
\* of items_data; winner_id is None until the game is over.
send_game_state ==
  PDict(<<Item("type", PStr("game_state")),
          Item("players",
               PList(<<PDict(<<Item("id", PInt(0)),
                               Item("x", PFloat(100)),
                               Item("y", PFloat(50)),
                               Item("direction", PInt(3)),
                               Item("hp", PInt(3)),
                               Item("kills", PInt(0)),
                               Item("alive", PBool(TRUE)),
                               Item("has_shield", PBool(FALSE)),
                               Item("has_triple_shot", PBool(FALSE)),
                               Item("has_speed_boost", PBool(FALSE)),
                               Item("has_full_vision", PBool(FALSE))>>)>>)),
          Item("items",
               PList(<<PDict(<<Item("x", PInt(64)),
                               Item("y", PInt(72)),
                               Item("type", PInt(1)),
                               Item("active", PBool(TRUE))>>)>>)),
          Item("game_over", PBool(FALSE)),
          Item("winner_id", PNone)>>)

\* The messages the game passes to send() on each side: the client joins
\* and reports its input and position; the host answers the JOIN with the
\* ROSTER, starts the game, reports its own input and position, and
\* broadcasts the events and the snapshot.
GameMsgs(p) ==
  IF p = "client"
  THEN {join_game, send_player_input(1), send_position_sync(1)}
  ELSE {send_player_list, broadcast_start_game, send_player_input(0),
        send_position_sync(0), send_bullet_spawn, send_item_spawn,
        send_item_pickup, send_player_damage, send_explosion,
        send_mine_spawn, send_game_state}

(***************************************************************************)
(* Records on the stream.  A record is what stands between two newlines.   *)
(***************************************************************************)
\* json.dumps(msg) + "\n"
Line(msg) == <<"json", JsonDumps(msg)>>

\* Records a writer that is not a NetworkPeer can put on the stream: text
\* that is not JSON, bytes that are not UTF-8, an empty line.
NOT_JSON == <<"notjson", 0>>
NOT_UTF8 == <<"notutf8", 0>>
BLANK == <<"blank", 0>>

(***************************************************************************)
(* Menu and NetworkManager objects.                                        *)
(***************************************************************************)
\* Menu.__init__
NewMenu ==
  [state |-> "MAIN_MENU", player_name |-> "", host_ip |-> "",
   is_host |-> FALSE, error_message |-> ""]

\* NetworkManager.__init__ followed by start(): the fields of the object.
\* exists tells TankTankApp.network is not None; peer tells self.peer is not
\* None (the host's peer is None when NetworkPeer(is_server=True) raised).
NewManager(is_host, direct_ip, bound) ==
  [exists |-> TRUE,
   is_host |-> is_host,
   running |-> TRUE,
   connection_established |-> is_host /\ bound,
   peer |-> IF is_host THEN bound ELSE direct_ip # "",
   host_address |-> ~is_host /\ direct_ip # "",
   clients |-> FALSE,
   my_player_id |-> IF is_host /\ bound THEN PInt(0) ELSE PNone,
   player_names |-> PDict(<<>>),
   game_starting |-> FALSE,
   shared_map_data |-> PNone,
   map_width |-> PNone,
   map_height |-> PNone]

\* TankTankApp.network is None.
NoNetwork ==
  [NewManager(FALSE, "", FALSE) EXCEPT !.exists = FALSE, !.running = FALSE]

\* len(d) of a dict.
DictLen(d) == Len(d[2])

\* msg.get(key, default) on a dict.
Get(d, key, default) ==
  IF \E i \in 1..Len(d[2]) : d[2][i][1] = PStr(key)
  THEN d[2][CHOOSE i \in 1..Len(d[2]) : d[2][i][1] = PStr(key)][2]
  ELSE default

\* NetworkManager.join_game: the JOIN of a player.
JoinMsg(name) ==
  PDict(<<Item("type", PStr("player_join")),
          Item("player_id", PInt(1)),
          Item("name", PStr(name))>>)

\* NetworkManager.send_player_list: the ROSTER carrying player_names.
RosterMsg(names) ==
  PDict(<<Item("type", PStr("player_list")), Item("players", names)>>)

RECURSIVE Flatten(_)
\* flat_map = []; for row in game_map: flat_map.extend(row)
Flatten(grid) ==
  IF grid = <<>> THEN <<>> ELSE Head(grid) \o Flatten(Tail(grid))

\* NetworkManager.broadcast_start_game: START with the flattened map.
StartMsg(names, game_map) ==
  PDict(<<Item("type", PStr("start_game")),
          Item("num_players", PInt(DictLen(names))),
          Item("map", PList([i \in 1..Len(Flatten(game_map)) |->
                               PInt(Flatten(game_map)[i])])),
          Item("map_width", PInt(MapWidth)),
          Item("map_height", PInt(MapHeight))>>)

\* MapGenerator.generate(): the maps it can return, MapHeight rows of
\* MapWidth tiles, the tiles being TILE_EMPTY .. TILE_MIRROR_DIAG_2.
Maps ==
  {[y \in 1..MapHeight |->
      [x \in 1..MapWidth |-> (x + MapWidth * (y - 1) + k) % 6]] : k \in 0..1}

\* The Python slice s[a:b] of a list, with 0-based bounds.
Slice(seq, a, b) ==
  LET lo == IF a > Len(seq) THEN Len(seq) ELSE a
      hi == IF b > Len(seq) THEN Len(seq) ELSE b
  IN IF hi <= lo THEN <<>> ELSE SubSeq(seq, lo + 1, hi)

\* The rebuild with rows of height tiles in place of width.
RebuildByHeight(flat, width, height) ==
  [y \in 1..height |->
     [i \in 1..Len(Slice(flat, (y - 1) * height, y * height)) |->
        Slice(flat, (y - 1) * height, y * height)[i][2]]]

\* TankTankApp._update_menu: the map the client rebuilds from the START
\* payload: for y in range(height): flat_map[y * width:(y + 1) * width],
\* the tiles being the ints json.loads returned.
Rebuild(flat, width, height) ==
  [y \in 1..height |->
     [i \in 1..Len(Slice(flat, (y - 1) * width, y * width)) |->
        Slice(flat, (y - 1) * width, y * width)[i][2]]]

\* send_player_list / peer.send: the ROSTER goes out when the manager is the
\* host, has a peer and the peer is connected.
RosterSent(net, conn) == net.is_host /\ net.peer /\ conn

\* NetworkManager._handle_message: the manager after one lobby message, and
\* the messages the call passed to peer.send().
HandleMessage(net, msg, conn) ==
  LET type == Get(msg, "type", PNone)
      player_id == Get(msg, "player_id", PInt(1))
      joined == [net EXCEPT !.player_names =
                   PDict(DictSet(@[2], player_id,
                                 Get(msg, "name", PStr("Player"))))]
  IN CASE type = PStr("player_join") ->
            <<joined,
              IF RosterSent(joined, conn)
              THEN <<RosterMsg(joined.player_names)>> ELSE <<>> >>
       [] type = PStr("player_list") ->
            <<[net EXCEPT !.player_names = Get(msg, "players", PDict(<<>>))],
              <<>> >>
       [] type = PStr("start_game") ->
            <<[net EXCEPT !.game_starting = TRUE,
                          !.shared_map_data = Get(msg, "map", PNone),
                          !.map_width = Get(msg, "map_width", PNone),
                          !.map_height = Get(msg, "map_height", PNone)],
              <<>> >>
       [] OTHER -> <<net, <<>> >>

RECURSIVE HandleAll(_, _, _, _)
\* NetworkManager.update: for msg in messages: _handle_message(msg) for the
\* lobby messages, in order; out collects what was passed to peer.send().
HandleAll(net, msgs, conn, out) ==
  IF msgs = <<>> THEN <<net, out>>
  ELSE LET r == HandleMessage(net, Head(msgs), conn)
       IN HandleAll(r[1], Tail(msgs), conn, out \o r[2])

\* NetworkManager.update before the messages: with a connected peer the
\* host records its client and the client takes player id 1.
NoteConnected(net, conn) ==
  IF ~(net.peer /\ conn) THEN net
  ELSE IF net.is_host
  THEN [net EXCEPT !.clients = TRUE]
  ELSE IF net.my_player_id = PNone
  THEN [net EXCEPT !.my_player_id = PInt(1)]
  ELSE net

\* The number of player_join messages among msgs.
JoinCount(msgs) ==
  Cardinality({i \in 1..Len(msgs) :
                 Get(msgs[i], "type", PNone) = PStr("player_join")})

(***************************************************************************)
(* The match.  A GameInstance holds two players, the items on the map and  *)
(* the interpolation targets of the remote players.  Where the bullets and *)
(* the mines are is not modelled: that a bullet or a mine has come within  *)
(* reach of a player in a tick is an input of the tick.  A coordinate is a *)
(* whole number of hundredths of a pixel.                                  *)
(***************************************************************************)
\* n pixels.
Px(n) == 100 * n

PLAYER_SIZE == 6

ITEM_SIZE == 6

ITEM_SPAWN_INTERVAL == 300

\* ItemSpawner.update: a new item only while len(self.items) < 3.
MAX_ITEMS == 3

ITEM_TRIPLE_SHOT == 1

ITEM_SHIELD == 2

ITEM_SPEED == 4

ITEM_VISION == 5

\* _interpolate_remote_players: farther than this, the player snaps.
SNAP_DISTANCE == 50

\* _handle_player_input: the frames between two position_sync of an idle
\* player.
IDLE_SYNC_FRAMES == 15

\* MapGenerator.get_spawn_positions(): (4 * 8 + 4, 4 * 8 + 4) and
\* ((32 - 5) * 8 + 4, 4 * 8 + 4) for the players 0 and 1.
spawn_positions == << <<Px(36), Px(36)>>, <<Px(220), Px(36)>> >>

PLAYER_MAX_HP == 3

PLAYER_RESPAWN_TIME == 60

WIN_KILLS == 5

\* The frames between two snapshots of the host.
SYNC_FRAMES == 30

\* The ids of the players of a network game: num_players = max(2, ...).
PlayerIds == {0, 1}

\* Player.__init__
NewPlayer(id) ==
  [id |-> id, x |-> spawn_positions[id + 1][1],
   y |-> spawn_positions[id + 1][2], direction |-> 0,
   hp |-> PLAYER_MAX_HP, alive |-> TRUE, kills |-> 0,
   has_triple_shot |-> FALSE, has_shield |-> FALSE,
   has_speed_boost |-> FALSE, has_full_vision |-> FALSE,
   respawn_timer |-> 0]

\* GameInstance.__init__: players[id + 1] is the player with that id; round
\* counts the restarts of the game (history).  my_player_id is that of the
\* NetworkManager the game holds: 0 on the host, 1 on the connected client.
\* items and spawn_timer are those of the ItemSpawner.  bullets and mines
\* hold the owner_id of every Bullet and Mine added to self.bullets and
\* self.mines, in order; their flight, their lifetime (180 and 600 ticks)
\* and their removal are not modelled.
NewGame(is_host) ==
  [exists |-> TRUE, use_network |-> TRUE, is_host |-> is_host,
   my_player_id |-> IF is_host THEN 0 ELSE 1,
   players |-> <<NewPlayer(0), NewPlayer(1)>>,
   remote_targets |-> [id \in PlayerIds |-> PNone],
   bullets |-> <<>>, mines |-> <<>>,
   items |-> <<>>, spawn_timer |-> ITEM_SPAWN_INTERVAL,
   game_over |-> FALSE, winner_id |-> PNone, state_sync_timer |-> 0,
   round |-> 0]

\* TankTankApp.game is None.
NoGame == [NewGame(FALSE) EXCEPT !.exists = FALSE]

\* Player.take_damage(): the player after the call and the value returned
\* (died).
take_damage(pl) ==
  IF ~pl.alive THEN <<pl, FALSE>>
  ELSE IF pl.has_shield THEN <<[pl EXCEPT !.has_shield = FALSE], FALSE>>
  ELSE IF pl.hp - 1 <= 0
  THEN <<[pl EXCEPT !.hp = 0, !.alive = FALSE,
                    !.respawn_timer = PLAYER_RESPAWN_TIME], TRUE>>
  ELSE <<[pl EXCEPT !.hp = @ - 1], FALSE>>

\* Player.update(): the respawn countdown of a dead player, which
\* respawn() ends.  The timers that end a power-up of a player alive are
\* not modelled.
PlayerUpdate(pl) ==
  IF pl.alive THEN pl
  ELSE IF pl.respawn_timer - 1 <= 0
  THEN [pl EXCEPT !.respawn_timer = @ - 1, !.alive = TRUE,
                  !.hp = PLAYER_MAX_HP, !.has_triple_shot = FALSE,
                  !.has_shield = FALSE, !.has_speed_boost = FALSE,
                  !.has_full_vision = FALSE]
  ELSE [pl EXCEPT !.respawn_timer = @ - 1]

\* Player.activate_item
activate_item(pl, item_type) ==
  CASE item_type = ITEM_TRIPLE_SHOT -> [pl EXCEPT !.has_triple_shot = TRUE]
    [] item_type = ITEM_SHIELD -> [pl EXCEPT !.has_shield = TRUE]
    [] item_type = ITEM_SPEED -> [pl EXCEPT !.has_speed_boost = TRUE]
    [] item_type = ITEM_VISION -> [pl EXCEPT !.has_full_vision = TRUE]
    [] OTHER -> pl

\* GameInstance._send_player_damage followed by _send_explosion: what the
\* host passes to peer.send() for one hit.  Where the explosion is is not
\* modelled.
DamageMsg(pl, died, attacker_id) ==
  PDict(<<Item("type", PStr("player_damage")),
          Item("player_id", PInt(pl.id)),
          Item("hp", PInt(pl.hp)),
          Item("died", PBool(died)),
          Item("attacker_id", PInt(attacker_id)),
          Item("x", PInt(pl.x)),
          Item("y", PInt(pl.y))>>)

\* GameInstance._send_explosion
ExplosionMsg ==
  PDict(<<Item("type", PStr("explosion")),
          Item("x", PInt(0)),
          Item("y", PInt(0))>>)

\* The hit reported only when the player died.
HitMsgsOnDeath(pl, died, attacker_id) ==
  IF died THEN <<DamageMsg(pl, died, attacker_id), ExplosionMsg>>
  ELSE <<ExplosionMsg>>

\* GameInstance.update: the two messages a hit sends, in the tick of the hit.
HitMsgs(pl, died, attacker_id) ==
  <<DamageMsg(pl, died, attacker_id), ExplosionMsg>>

\* The snapshot without the game_over flag.
SnapshotMsgNoOver(g) ==
  PDict(<<Item("type", PStr("game_state")),
          Item("players",
               PList([i \in 1..Len(g.players) |->
                        PDict(<<Item("id", PInt(g.players[i].id)),
                                Item("x", PInt(g.players[i].x)),
                                Item("y", PInt(g.players[i].y)),
                                Item("direction",
                                     PInt(g.players[i].direction)),
                                Item("hp", PInt(g.players[i].hp)),
                                Item("kills", PInt(g.players[i].kills)),
                                Item("alive", PBool(g.players[i].alive)),
                                Item("has_shield",
                                     PBool(g.players[i].has_shield)),
                                Item("has_triple_shot",
                                     PBool(g.players[i].has_triple_shot)),
                                Item("has_speed_boost",
                                     PBool(g.players[i].has_speed_boost)),
                                Item("has_full_vision",
                                     PBool(g.players[i].has_full_vision))>>)])),
          Item("items",
               PList([k \in 1..Len(g.items) |->
                        PDict(<<Item("x", PInt(g.items[k].x)),
                                Item("y", PInt(g.items[k].y)),
                                Item("type", PInt(g.items[k].type)),
                                Item("active", PBool(g.items[k].active))>>)])),
          Item("winner_id", g.winner_id)>>)

\* GameInstance._send_game_state: the snapshot.
SnapshotMsg(g) ==
  PDict(<<Item("type", PStr("game_state")),
          Item("players",
               PList([i \in 1..Len(g.players) |->
                        PDict(<<Item("id", PInt(g.players[i].id)),
                                Item("x", PInt(g.players[i].x)),
                                Item("y", PInt(g.players[i].y)),
                                Item("direction",
                                     PInt(g.players[i].direction)),
                                Item("hp", PInt(g.players[i].hp)),
                                Item("kills", PInt(g.players[i].kills)),
                                Item("alive", PBool(g.players[i].alive)),
                                Item("has_shield",
                                     PBool(g.players[i].has_shield)),
                                Item("has_triple_shot",
                                     PBool(g.players[i].has_triple_shot)),
                                Item("has_speed_boost",
                                     PBool(g.players[i].has_speed_boost)),
                                Item("has_full_vision",
                                     PBool(g.players[i].has_full_vision))>>)])),
          Item("items",
               PList([k \in 1..Len(g.items) |->
                        PDict(<<Item("x", PInt(g.items[k].x)),
                                Item("y", PInt(g.items[k].y)),
                                Item("type", PInt(g.items[k].type)),
                                Item("active", PBool(g.items[k].active))>>)])),
          Item("game_over", PBool(g.game_over)),
          Item("winner_id", g.winner_id)>>)

\* A kill credited to the player with id killer_id:
\* killer.kills += 1; if killer.kills >= WIN_KILLS: game over, killer wins.
CreditKill(g, killer_id) ==
  LET credited == [g EXCEPT !.players[killer_id + 1].kills = @ + 1]
  IN IF credited.players[killer_id + 1].kills >= WIN_KILLS
     THEN [credited EXCEPT !.game_over = TRUE, !.winner_id = PInt(killer_id)]
     ELSE credited

\* GameInstance._respawn_player: the player back at its spawn point.
respawn_player(pl) ==
  [pl EXCEPT !.x = spawn_positions[pl.id + 1][1],
             !.y = spawn_positions[pl.id + 1][2]]

\* GameInstance.update: died = player.take_damage(), and
\* _respawn_player(player) if died.
Struck(pl) ==
  LET hit == take_damage(pl)
  IN <<IF hit[2] THEN respawn_player(hit[1]) ELSE hit[1], hit[2]>>

\* Bullet.check_player_collision / Mine.check_trigger for the player the
\* bullet or mine has come near: not a dead player, not its owner.
Collides(c, pl) == pl.alive /\ c.owner_id # pl.id

RECURSIVE ResolveBullets(_, _, _)
\* GameInstance.update, the bullet loop on the authoritative side: the game
\* after the loop and the messages sent.  A bullet that hits is spent.
ResolveBullets(g, bullets, out) ==
  IF bullets = <<>> THEN <<g, out>>
  ELSE LET b == Head(bullets)
           pl == g.players[b.near + 1]
           hit == Struck(pl)
           damaged == [g EXCEPT !.players[b.near + 1] = hit[1]]
           after == IF hit[2] /\ b.owner_id \in PlayerIds
                    THEN CreditKill(damaged, b.owner_id) ELSE damaged
       IN IF Collides(b, pl)
          THEN ResolveBullets(after, Tail(bullets),
                              out \o HitMsgs(hit[1], hit[2], b.owner_id))
          ELSE ResolveBullets(g, Tail(bullets), out)

RECURSIVE ResolveMines(_, _, _)
\* GameInstance.update, the mine loop on the authoritative side.
ResolveMines(g, mines, out) ==
  IF mines = <<>> THEN <<g, out>>
  ELSE LET m == Head(mines)
           pl == g.players[m.near + 1]
           hit == Struck(pl)
           damaged == [g EXCEPT !.players[m.near + 1] = hit[1]]
       IN IF Collides(m, pl)
          THEN ResolveMines(damaged, Tail(mines),
                            out \o HitMsgs(hit[1], hit[2], m.owner_id))
          ELSE ResolveMines(g, Tail(mines), out)

\* _apply_player_damage crediting the attacker for every hit, deadly or not.
ApplyPlayerDamageCredits(g, msg) ==
  LET player_id == Get(msg, "player_id", PNone)
      known == player_id[1] = "int" /\ player_id[2] < Len(g.players)
      i == player_id[2] + 1
      died == Get(msg, "died", PBool(FALSE))[2]
      attacker_id == Get(msg, "attacker_id", PNone)
      hurt == [g EXCEPT !.players[i].hp = Get(msg, "hp", PInt(@))[2]]
      dead == [hurt EXCEPT !.players[i].alive = FALSE,
                           !.players[i].respawn_timer = PLAYER_RESPAWN_TIME,
                           !.players[i].x = Get(msg, "x", PInt(@))[2],
                           !.players[i].y = Get(msg, "y", PInt(@))[2]]
      after == IF died THEN dead ELSE hurt
  IN IF ~known THEN g
     ELSE IF attacker_id[1] = "int" /\ attacker_id[2] < Len(g.players)
     THEN CreditKill(after, attacker_id[2])
     ELSE after

\* GameInstance._apply_player_damage
ApplyPlayerDamage(g, msg) ==
  LET player_id == Get(msg, "player_id", PNone)
      known == player_id[1] = "int" /\ player_id[2] < Len(g.players)
      i == player_id[2] + 1
      died == Get(msg, "died", PBool(FALSE))[2]
      attacker_id == Get(msg, "attacker_id", PNone)
      hurt == [g EXCEPT !.players[i].hp = Get(msg, "hp", PInt(@))[2]]
      dead == [hurt EXCEPT !.players[i].alive = FALSE,
                           !.players[i].respawn_timer = PLAYER_RESPAWN_TIME,
                           !.players[i].x = Get(msg, "x", PInt(@))[2],
                           !.players[i].y = Get(msg, "y", PInt(@))[2]]
  IN IF ~known THEN g
     ELSE IF ~died THEN hurt
     ELSE IF attacker_id[1] = "int" /\ attacker_id[2] < Len(g.players)
     THEN CreditKill(dead, attacker_id[2])
     ELSE dead

RECURSIVE ApplyPlayers(_, _)
\* GameInstance._apply_game_state: for pdata in players_data.
ApplyPlayers(g, players_data) ==
  IF players_data = <<>> THEN g
  ELSE LET pdata == Head(players_data)
           player_id == Get(pdata, "id", PNone)
           i == player_id[2] + 1
           pl == g.players[i]
           target == PList(<<Get(pdata, "x", PNone), Get(pdata, "y", PNone),
                             Get(pdata, "direction", PNone)>>)
           synced ==
             [g EXCEPT !.remote_targets[player_id[2]] =
                         IF player_id[2] # g.my_player_id THEN target ELSE @,
                       !.players[i] =
                [pl EXCEPT !.hp = Get(pdata, "hp", PInt(pl.hp))[2],
                           !.kills = Get(pdata, "kills", PInt(pl.kills))[2],
                           !.alive = Get(pdata, "alive", PBool(pl.alive))[2],
                           !.has_shield =
                             Get(pdata, "has_shield",
                                 PBool(pl.has_shield))[2],
                           !.has_triple_shot =
                             Get(pdata, "has_triple_shot",
                                 PBool(pl.has_triple_shot))[2],
                           !.has_speed_boost =
                             Get(pdata, "has_speed_boost",
                                 PBool(pl.has_speed_boost))[2],
                           !.has_full_vision =
                             Get(pdata, "has_full_vision",
                                 PBool(pl.has_full_vision))[2]]]
       IN IF player_id[1] = "int" /\ player_id[2] < Len(g.players)
          THEN ApplyPlayers(synced, Tail(players_data))
          ELSE ApplyPlayers(g, Tail(players_data))

\* Item.__init__
NewItem(x, y, item_type) ==
  [x |-> x, y |-> y, type |-> item_type, active |-> TRUE]

\* No item: what _spawn_item() adds when it has found no empty tile.
NoItem == [NewItem(0, 0, 0) EXCEPT !.active = FALSE]

\* GameInstance._apply_game_state: the items of the snapshot that are
\* active, made anew.
SnapshotItems(items_data) ==
  LET live == SelectSeq(items_data,
                        LAMBDA idata : Get(idata, "active", PBool(TRUE))[2])
  IN [k \in 1..Len(live) |->
        NewItem(Get(live[k], "x", PNone)[2], Get(live[k], "y", PNone)[2],
                Get(live[k], "type", PNone)[2])]

\* _apply_game_state adding the items of the snapshot to those of the map.
ApplyGameStateKeepItems(g, msg) ==
  LET synced == [ApplyPlayers(g, Get(msg, "players", PList(<<>>))[2]) EXCEPT
                   !.items =
                     @ \o SnapshotItems(Get(msg, "items", PList(<<>>))[2])]
      winner_id == Get(msg, "winner_id", PNone)
      over == [synced EXCEPT
                 !.game_over = Get(msg, "game_over", PBool(FALSE))[2]]
  IN IF winner_id[1] = "int" /\ winner_id[2] < Len(g.players)
     THEN [over EXCEPT !.winner_id = winner_id]
     ELSE over

\* _apply_game_state emptying the bullets and the mines of the client.
ApplyGameStateClearsField(g, msg) ==
  LET synced == [ApplyPlayers(g, Get(msg, "players", PList(<<>>))[2]) EXCEPT
                   !.items =
                     SnapshotItems(Get(msg, "items", PList(<<>>))[2]),
                   !.bullets = <<>>, !.mines = <<>>]
      winner_id == Get(msg, "winner_id", PNone)
      over == [synced EXCEPT
                 !.game_over = Get(msg, "game_over", PBool(FALSE))[2]]
  IN IF winner_id[1] = "int" /\ winner_id[2] < Len(g.players)
     THEN [over EXCEPT !.winner_id = winner_id]
     ELSE over

\* GameInstance._apply_game_state
ApplyGameState(g, msg) ==
  LET synced == [ApplyPlayers(g, Get(msg, "players", PList(<<>>))[2]) EXCEPT
                   !.items =
                     SnapshotItems(Get(msg, "items", PList(<<>>))[2])]
      winner_id == Get(msg, "winner_id", PNone)
      over == [synced EXCEPT
                 !.game_over = Get(msg, "game_over", PBool(FALSE))[2]]
  IN IF winner_id[1] = "int" /\ winner_id[2] < Len(g.players)
     THEN [over EXCEPT !.winner_id = winner_id]
     ELSE over

\* GameInstance._apply_item_spawn
ApplyItemSpawn(g, msg) ==
  [g EXCEPT !.items =
     Append(@, NewItem(Get(msg, "x", PNone)[2], Get(msg, "y", PNone)[2],
                       Get(msg, "item_type", PNone)[2]))]

\* abs(a - b) < 1, one pixel.
Within1(a, b) == a - b < Px(1) /\ b - a < Px(1)

\* GameInstance._apply_item_pickup: the effect of the item on the player,
\* and the first item at that place no longer active.
ApplyItemPickup(g, msg) ==
  LET player_id == Get(msg, "player_id", PNone)
      item_type == Get(msg, "item_type", PNone)
      x == Get(msg, "x", PNone)[2]
      y == Get(msg, "y", PNone)[2]
      found == {k \in 1..Len(g.items) :
                  Within1(g.items[k].x, x) /\ Within1(g.items[k].y, y)}
      first == CHOOSE k \in found : \A j \in found : k <= j
      taken == IF found = {} THEN g
               ELSE [g EXCEPT !.items[first].active = FALSE]
  IN IF /\ player_id[1] = "int" /\ player_id[2] < Len(g.players)
        /\ item_type # PNone
     THEN [taken EXCEPT !.players[player_id[2] + 1] =
                          activate_item(@, item_type[2])]
     ELSE taken

\* GameInstance.update: the messages kept for the players' loop.
RemoteInputs(msgs) ==
  SelectSeq(msgs, LAMBDA msg : Get(msg, "type", PNone)
                                 \in {PStr("player_input"),
                                      PStr("position_sync")})

\* GameInstance._apply_bullet_spawn: a Bullet is appended, whoever owns it.
ApplyBulletSpawn(g, msg) ==
  [g EXCEPT !.bullets = Append(@, Get(msg, "owner_id", PNone)[2])]

\* GameInstance._apply_mine_spawn: a Mine is appended, whoever owns it.
ApplyMineSpawn(g, msg) ==
  [g EXCEPT !.mines = Append(@, Get(msg, "owner_id", PNone)[2])]

RECURSIVE ApplyMessages(_, _)
\* GameInstance.update: for msg in game_messages, the messages applied in
\* the loop (those of the map and the explosions change nothing that is
\* modelled).
ApplyMessages(g, msgs) ==
  IF msgs = <<>> THEN g
  ELSE LET msg == Head(msgs)
           type == Get(msg, "type", PNone)
       IN ApplyMessages(CASE type = PStr("game_state") ->
                               ApplyGameState(g, msg)
                          [] type = PStr("item_spawn") ->
                               ApplyItemSpawn(g, msg)
                          [] type = PStr("item_pickup") ->
                               ApplyItemPickup(g, msg)
                          [] type = PStr("player_damage") ->
                               ApplyPlayerDamage(g, msg)
                          [] type = PStr("bullet_spawn") ->
                               ApplyBulletSpawn(g, msg)
                          [] type = PStr("mine_spawn") ->
                               ApplyMineSpawn(g, msg)
                          [] OTHER -> g,
                        Tail(msgs))

\* The side resolving collisions for every game, networked or not.
AuthoritativeAlways(g) == TRUE

\* GameInstance.update: not self.use_network or self.is_host
Authoritative(g) == ~g.use_network \/ g.is_host

\* What the user of a side does with the keys in a tick: the direction
\* keys held (dx, dy), SPACE and E pressed (shoot, place_mine); blocked tells
\* that a wall stands where the keys lead, ready that the shoot_cooldown of
\* a player who shoots in this tick has run out.
Idle ==
  [dx |-> 0, dy |-> 0, shoot |-> FALSE, place_mine |-> FALSE,
   blocked |-> FALSE, ready |-> TRUE]

\* Player.move: the direction turns with the keys; the position changes by
\* the speed (1.0, times 1.5 with the speed boost) unless a wall is there.
\* self.speed, which activate_item raises too, is not modelled.
move(pl, ctl) ==
  LET direction == CASE ctl.dx < 0 -> 3
                     [] ctl.dx > 0 -> 1
                     [] ctl.dy < 0 -> 0
                     [] ctl.dy > 0 -> 2
                     [] OTHER -> pl.direction
      current_speed == IF pl.has_speed_boost THEN (3 * Px(1)) \div 2
                       ELSE Px(1)
  IN IF ~pl.alive THEN pl
     ELSE IF ctl.blocked THEN [pl EXCEPT !.direction = direction]
     ELSE [pl EXCEPT !.direction = direction,
                     !.x = @ + ctl.dx * current_speed,
                     !.y = @ + ctl.dy * current_speed]

\* GameInstance._send_bullet_spawn, for a bullet of this player; where the
\* bullet starts and flies is not modelled.
BulletSpawnMsg(pl) ==
  PDict(<<Item("type", PStr("bullet_spawn")),
          Item("x", PInt(pl.x)),
          Item("y", PInt(pl.y)),
          Item("vx", PInt(0)),
          Item("vy", PInt(0)),
          Item("owner_id", PInt(pl.id))>>)

\* GameInstance._send_mine_spawn, for a mine this player has placed.
MineSpawnMsg(pl) ==
  PDict(<<Item("type", PStr("mine_spawn")),
          Item("x", PInt(pl.x)),
          Item("y", PInt(pl.y)),
          Item("owner_id", PInt(pl.id))>>)

\* The spawn messages sent by either side.
ActionMsgsAnySide(g, pl, shoot, place_mine, ready) ==
  LET bullet == IF shoot /\ pl.alive /\ ready /\ g.use_network
                THEN <<BulletSpawnMsg(pl)>> ELSE <<>>
      bullets == IF pl.has_triple_shot THEN bullet \o bullet \o bullet
                 ELSE bullet
      mine == IF place_mine /\ pl.alive /\ g.use_network
              THEN <<MineSpawnMsg(pl)>> ELSE <<>>
  IN bullets \o mine

\* Player.shoot() and _place_mine() on a side: the bullet_spawn messages
\* (one, or three with the triple shot) and the mine_spawn message the host
\* sends.
ActionMsgs(g, pl, shoot, place_mine, ready) ==
  LET bullet == IF shoot /\ pl.alive /\ ready /\ g.use_network /\ g.is_host
                THEN <<BulletSpawnMsg(pl)>> ELSE <<>>
      bullets == IF pl.has_triple_shot THEN bullet \o bullet \o bullet
                 ELSE bullet
      mine == IF place_mine /\ pl.alive /\ g.use_network /\ g.is_host
              THEN <<MineSpawnMsg(pl)>> ELSE <<>>
  IN bullets \o mine

\* Player.shoot() and _place_mine() on a side: self.bullets extended by
\* the new bullets of a player who is alive and whose cooldown has run out
\* (one, or three with the triple shot), a Mine appended to self.mines for
\* a player who is alive.
Act(g, pl, shoot, place_mine, ready) ==
  LET bullet == IF shoot /\ pl.alive /\ ready THEN <<pl.id>> ELSE <<>>
      bullets == IF pl.has_triple_shot THEN bullet \o bullet \o bullet
                 ELSE bullet
      mine == IF place_mine /\ pl.alive THEN <<pl.id>> ELSE <<>>
  IN [g EXCEPT !.bullets = @ \o bullets, !.mines = @ \o mine]

\* GameInstance._send_player_input (INPUT)
InputMsg(pl, ctl) ==
  PDict(<<Item("type", PStr("player_input")),
          Item("player_id", PInt(pl.id)),
          Item("dx", PInt(ctl.dx)),
          Item("dy", PInt(ctl.dy)),
          Item("shoot", PBool(ctl.shoot)),
          Item("place_mine", PBool(ctl.place_mine)),
          Item("x", PInt(pl.x)),
          Item("y", PInt(pl.y)),
          Item("direction", PInt(pl.direction))>>)

\* GameInstance._send_position_sync (the heartbeat of an idle player)
SyncMsg(pl) ==
  PDict(<<Item("type", PStr("position_sync")),
          Item("player_id", PInt(pl.id)),
          Item("x", PInt(pl.x)),
          Item("y", PInt(pl.y)),
          Item("direction", PInt(pl.direction))>>)

\* The INPUT sent in every tick, idle or not.
OwnMsgsEveryTick(g, pl, ctl, frame_count) ==
  IF g.use_network /\ pl.id = g.my_player_id
  THEN <<InputMsg(pl, ctl)>>
  ELSE <<>>

\* GameInstance._handle_player_input, the end: the INPUT of a tick with
\* movement or an action, the position_sync of an idle tick whose frame
\* count is a multiple of 15.
OwnMsgs(g, pl, ctl, frame_count) ==
  IF ~(g.use_network /\ pl.id = g.my_player_id) THEN <<>>
  ELSE IF ctl.dx # 0 \/ ctl.dy # 0 \/ ctl.shoot \/ ctl.place_mine
  THEN <<InputMsg(pl, ctl)>>
  ELSE IF frame_count % IDLE_SYNC_FRAMES = 0 THEN <<SyncMsg(pl)>>
  ELSE <<>>

\* GameInstance._handle_player_input for players[i]: the game after it and
\* out with the messages it sends.
HandleInput(g, i, ctl, frame_count, out) ==
  LET moved == IF ctl.dx # 0 \/ ctl.dy # 0 THEN move(g.players[i], ctl)
               ELSE g.players[i]
  IN <<Act([g EXCEPT !.players[i] = moved], moved, ctl.shoot,
           ctl.place_mine, ctl.ready),
       out \o ActionMsgs(g, moved, ctl.shoot, ctl.place_mine, ctl.ready)
           \o OwnMsgs(g, moved, ctl, frame_count)>>

\* GameInstance._apply_remote_input for players[i]: the target and the
\* direction the message carries, and the actions of a player_input.
ApplyRemoteInput(g, i, input_data, ready, out) ==
  LET pl == g.players[i]
      target_dir == Get(input_data, "direction", PInt(pl.direction))
      target == PList(<<Get(input_data, "x", PInt(pl.x)),
                        Get(input_data, "y", PInt(pl.y)), target_dir>>)
      turned == [pl EXCEPT !.direction = target_dir[2]]
      aimed == [g EXCEPT !.remote_targets[pl.id] = target,
                         !.players[i] = turned]
  IN IF Get(input_data, "type", PNone) = PStr("position_sync")
     THEN <<aimed, out>>
     ELSE <<Act(aimed, turned,
                Get(input_data, "shoot", PBool(FALSE))[2],
                Get(input_data, "place_mine", PBool(FALSE))[2], ready),
            out \o ActionMsgs(g, turned,
                              Get(input_data, "shoot", PBool(FALSE))[2],
                              Get(input_data, "place_mine", PBool(FALSE))[2],
                              ready)>>

RECURSIVE ApplyRemoteInputs(_, _, _, _)
\* GameInstance.update: for remote_input in remote_inputs, those of
\* players[i]; r is the game and the messages sent so far.
ApplyRemoteInputs(r, i, remote_inputs, ready) ==
  IF remote_inputs = <<>> THEN r
  ELSE ApplyRemoteInputs(
         IF Get(Head(remote_inputs), "player_id", PNone) = PInt(i - 1)
         THEN ApplyRemoteInput(r[1], i, Head(remote_inputs), ready, r[2])
         ELSE r,
         i, Tail(remote_inputs), ready)

RECURSIVE StepPlayers(_, _, _, _, _)
\* GameInstance.update: for i, player in enumerate(self.players), from
\* players[i] on: player.update(), then the keys for the side's own player
\* and the remote inputs for the other.
StepPlayers(r, i, ctl, frame_count, remote_inputs) ==
  IF i > Len(r[1].players) THEN r
  ELSE StepPlayers(
         IF ~r[1].use_network \/ i - 1 = r[1].my_player_id
         THEN HandleInput([r[1] EXCEPT !.players[i] = PlayerUpdate(@)],
                          i, ctl, frame_count, r[2])
         ELSE ApplyRemoteInputs(
                <<[r[1] EXCEPT !.players[i] = PlayerUpdate(@)], r[2]>>,
                i, remote_inputs, ctl.ready),
         i + 1, ctl, frame_count, remote_inputs)

\* interpolation_speed = 0.3 of a distance d (exact when d is a whole
\* number of tenths of a pixel).
Smooth(d) == (3 * d) \div 10

\* _interpolate_remote_players for one player with a target, moving every
\* player that is not at its target.
InterpolateNoDeadZone(pl, target) ==
  LET dx == target[2][1][2] - pl.x
      dy == target[2][2][2] - pl.y
  IN IF dx * dx + dy * dy > Px(SNAP_DISTANCE) * Px(SNAP_DISTANCE)
     THEN [pl EXCEPT !.x = target[2][1][2], !.y = target[2][2][2]]
     ELSE [pl EXCEPT !.x = @ + Smooth(dx), !.y = @ + Smooth(dy)]

\* _interpolate_remote_players for one player with a target: farther than
\* 50 pixels the player snaps to the target; farther than half a pixel it
\* moves 0.3 of the way on each axis; nearer it stays.
InterpolatePlayer(pl, target) ==
  LET dx == target[2][1][2] - pl.x
      dy == target[2][2][2] - pl.y
  IN IF dx * dx + dy * dy > Px(SNAP_DISTANCE) * Px(SNAP_DISTANCE)
     THEN [pl EXCEPT !.x = target[2][1][2], !.y = target[2][2][2]]
     ELSE IF 4 * (dx * dx + dy * dy) > Px(1) * Px(1)
     THEN [pl EXCEPT !.x = @ + Smooth(dx), !.y = @ + Smooth(dy)]
     ELSE pl

\* GameInstance._interpolate_remote_players
Interpolate(g) ==
  IF ~g.use_network THEN g
  ELSE [g EXCEPT !.players =
          [i \in 1..Len(@) |->
             IF @[i].id # g.my_player_id /\ g.remote_targets[@[i].id] # PNone
             THEN InterpolatePlayer(@[i], g.remote_targets[@[i].id])
             ELSE @[i]]]

\* Item.check_pickup: the distance between the item and a player alive is
\* under (PLAYER_SIZE + ITEM_SIZE) / 2.
check_pickup(item, pl) ==
  /\ item.active /\ pl.alive
  /\ 4 * ((item.x - pl.x) * (item.x - pl.x) + (item.y - pl.y) * (item.y - pl.y))
       < Px(PLAYER_SIZE + ITEM_SIZE) * Px(PLAYER_SIZE + ITEM_SIZE)

RECURSIVE CheckPickups(_, _)
\* ItemSpawner.update: for item in self.items, from items[k] on: the first
\* player within reach takes the item.
CheckPickups(g, k) ==
  IF k > Len(g.items) THEN g
  ELSE LET takers == {i \in 1..Len(g.players) :
                        check_pickup(g.items[k], g.players[i])}
           first == CHOOSE i \in takers : \A j \in takers : i <= j
       IN CheckPickups(
            IF takers = {} THEN g
            ELSE [g EXCEPT !.players[first] =
                             activate_item(@, g.items[k].type),
                           !.items[k].active = FALSE],
            k + 1)

\* ItemSpawner.update, the end: the items that are not active leave the
\* list; when the timer has run out and fewer than three items are left,
\* _spawn_item() adds the item spawn (none when it found no empty tile) and
\* the timer starts again.
SpawnItem(g, spawn) ==
  LET left == SelectSeq(g.items, LAMBDA item : item.active)
  IN IF g.spawn_timer <= 0 /\ Len(left) < MAX_ITEMS
     THEN [g EXCEPT !.items = IF spawn.active THEN Append(left, spawn)
                              ELSE left,
                    !.spawn_timer = ITEM_SPAWN_INTERVAL]
     ELSE [g EXCEPT !.items = left]

\* ItemSpawner.update
ItemSpawnerUpdate(g, spawn) ==
  SpawnItem(CheckPickups([g EXCEPT !.spawn_timer = @ - 1], 1), spawn)

\* GameInstance._send_item_spawn
ItemSpawnMsg(item) ==
  PDict(<<Item("type", PStr("item_spawn")),
          Item("x", PInt(item.x)),
          Item("y", PInt(item.y)),
          Item("item_type", PInt(item.type))>>)

\* GameInstance._send_item_pickup
ItemPickupMsg(item, player_id) ==
  PDict(<<Item("type", PStr("item_pickup")),
          Item("x", PInt(item.x)),
          Item("y", PInt(item.y)),
          Item("player_id", PInt(player_id)),
          Item("item_type", PInt(item.type))>>)

RECURSIVE PickupMsgs(_, _, _)
\* GameInstance.update: for player in self.players: for item in
\* self.item_spawner.items: if not item.active: _send_item_pickup; from
\* players[i], items[k] on.
PickupMsgs(g, i, k) ==
  IF i > Len(g.players) THEN <<>>
  ELSE IF k > Len(g.items) THEN PickupMsgs(g, i + 1, 1)
  ELSE (IF ~g.items[k].active
        THEN <<ItemPickupMsg(g.items[k], g.players[i].id)>> ELSE <<>>)
       \o PickupMsgs(g, i, k + 1)

\* GameInstance.update: what the host sends about the items after
\* item_spawner.update(): the last item when there are more items than
\* before, and the items that are not active.
ItemMsgs(g, old_item_count) ==
  IF ~(g.use_network /\ g.is_host) THEN <<>>
  ELSE (IF Len(g.items) > old_item_count
        THEN <<ItemSpawnMsg(g.items[Len(g.items)])>> ELSE <<>>)
       \o PickupMsgs(g, 1, 1)

\* The items of the game in r after the update, with the messages about
\* them.
ItemsAfter(r, updated) ==
  <<updated, r[2] \o ItemMsgs(updated, Len(r[1].items))>>

\* GameInstance.update: the items; r is the game and the messages sent so
\* far.  The client only drops the items that are not active.
UpdateItems(r, spawn) ==
  IF Authoritative(r[1])
  THEN ItemsAfter(r, ItemSpawnerUpdate(r[1], spawn))
  ELSE <<[r[1] EXCEPT !.items = SelectSeq(@, LAMBDA item : item.active)],
         r[2]>>

\* GameInstance.update: the mine loop after the bullet loop.
ResolveMinesAfter(shot, mines) == ResolveMines(shot[1], mines, shot[2])

\* GameInstance.update: the remote players interpolated, then the bullets
\* and the mines, resolved on the authoritative side only; r is the game
\* and the messages sent so far.
Resolve(r, bullets, mines) ==
  IF Authoritative(r[1])
  THEN ResolveMinesAfter(ResolveBullets(Interpolate(r[1]), bullets, r[2]),
                         mines)
  ELSE <<Interpolate(r[1]), r[2]>>

\* The host's snapshot with a timer that starts again in every tick that
\* has sent a message.
SyncStateWhenQuiet(g, out) ==
  IF ~(g.use_network /\ g.is_host) THEN <<g, out>>
  ELSE IF out # <<>> THEN <<[g EXCEPT !.state_sync_timer = 0], out>>
  ELSE IF g.state_sync_timer + 1 >= SYNC_FRAMES
  THEN <<[g EXCEPT !.state_sync_timer = 0],
         Append(out, SnapshotMsg([g EXCEPT !.state_sync_timer = 0]))>>
  ELSE <<[g EXCEPT !.state_sync_timer = @ + 1], out>>

\* GameInstance.update: the host's periodic snapshot, after the events of
\* the tick.
SyncState(g, out) ==
  IF ~(g.use_network /\ g.is_host) THEN <<g, out>>
  ELSE IF g.state_sync_timer + 1 >= SYNC_FRAMES
  THEN <<[g EXCEPT !.state_sync_timer = 0],
         Append(out, SnapshotMsg([g EXCEPT !.state_sync_timer = 0]))>>
  ELSE <<[g EXCEPT !.state_sync_timer = @ + 1], out>>

\* The snapshot after the resolution r of the tick.
SyncAfter(r) == SyncState(r[1], r[2])

\* GameInstance.update after the game_over test, given the game messages of
\* network.update() and the inputs of the tick: the keys (ctl), the frame
\* count, the bullets and mines that have come near a player, and the item
\* _spawn_item() makes if it is called.  The game after the tick and the
\* messages passed to peer.send().
GameUpdate(g, msgs, in) ==
  SyncAfter(
    UpdateItems(
      Resolve(StepPlayers(<<ApplyMessages(g, msgs), <<>> >>, 1, in.ctl,
                          in.frame_count, RemoteInputs(msgs)),
              in.bullets, in.mines),
      in.spawn))

(***************************************************************************)
(* State.                                                                  *)
(***************************************************************************)
VARIABLES
  up,           \* p: the NetworkPeer object has been constructed
  running,      \* self.running
  connected,    \* self.connected
  connSet,      \* self.conn is not None
  sockClosed,   \* self.sock has been closed
  accClosed,    \* the host's accepted socket has been closed
  retry_count,  \* _client_loop: retry_count
  connPc,       \* position of _server_loop / _client_loop
  tcp,          \* the TCP connection: none, pending (in the host's accept
                \* queue), accepted
  netDown,      \* the connection was reset by the network
  wire,         \* wire[p]: records written by the other side, not yet read
  outbox,       \* self.outbox
  inbox,        \* self.inbox
  sendPc,       \* position of _send_loop
  messages,     \* _send_loop: messages (the batch being collected)
  recvPc,       \* position of _recv_loop
  buffer,       \* _recv_loop: buffer (complete records not yet parsed)
  appPc,        \* game-loop thread: idle, or inside recv_all()
  drained,      \* recv_all: messages
  nSend,        \* history: number of send() calls made on p
  sentLog,      \* history: messages send() put into the outbox of p
  arrived,      \* history: messages the receiver put into the inbox of p
  gotLog,       \* history: concatenation of the lists recv_all() returned
  lost,         \* history: a loop of p reported an I/O error or a peer close
  nForeign,     \* history: records the foreign writer has written
  menu,         \* menu[p]: the Menu object of the application on side p
  network,      \* network[p]: TankTankApp.network and the NetworkManager it holds
  app,          \* app[p]: TankTankApp.in_game and the map of its game
  nSession,     \* history: NetworkManager objects created on side p
  nJoin,        \* history: player_join messages the host has handled
  asked,        \* history: what the last frame of a side was asked
  game,         \* game[p]: TankTankApp.game, the GameInstance of side p
  nTick,        \* history: frames of the game run on side p
  keys,         \* keys[p]: the keys of the user of side p and
                \* pyxel.frame_count in the last frame of its game
  framing,      \* a receiver fed byte by byte: the bytes written to its
                \* stream (history), those not yet read, its buffer, its
                \* inbox, and whether a record split by a read was completed
  second        \* a second client peer: its connected flag, the position
                \* of its _client_loop, its retry_count, its connection and
                \* the position of its _recv_loop

vars == <<up, running, connected, connSet, sockClosed, accClosed,
          retry_count, connPc, tcp, netDown, wire, outbox, inbox, sendPc,
          messages, recvPc, buffer, appPc, drained, nSend, sentLog, arrived,
          gotLog, lost, nForeign, menu, network, app, nSession, nJoin,
          asked, game, nTick, keys, framing, second>>

sockVars == <<connSet, sockClosed, accClosed, tcp, netDown>>
sendVars == <<outbox, sendPc, messages, nSend, sentLog>>
recvVars == <<inbox, recvPc, buffer, arrived>>
appVars == <<appPc, drained, gotLog>>

\* The state of the two transport peers and of their connection.
peerVars == <<up, running, connected, retry_count, connPc, wire, lost,
              nForeign, sockVars, sendVars, recvVars, appVars>>

\* The state above the two transport peers.
\* The applications: menu, NetworkManager, game.
appVarsAll ==
  <<menu, network, app, nSession, nJoin, asked, game, nTick, keys>>

aboveVars == <<appVarsAll, framing, second>>

\* Neither peer constructed yet: the fields hold what __init__ will find.
Init ==
  /\ up = [p \in Peers |-> FALSE]
  /\ running = [p \in Peers |-> FALSE]
  /\ connected = [p \in Peers |-> FALSE]
  /\ connSet = [p \in Peers |-> FALSE]
  /\ sockClosed = [p \in Peers |-> FALSE]
  /\ accClosed = FALSE
  /\ retry_count = 0
  /\ connPc = [p \in Peers |-> "idle"]
  /\ tcp = "none"
  /\ netDown = FALSE
  /\ wire = [p \in Peers |-> <<>>]
  /\ outbox = [p \in Peers |-> <<>>]
  /\ inbox = [p \in Peers |-> <<>>]
  /\ sendPc = [p \in Peers |-> "idle"]
  /\ messages = [p \in Peers |-> <<>>]
  /\ recvPc = [p \in Peers |-> "idle"]
  /\ buffer = [p \in Peers |-> <<>>]
  /\ appPc = [p \in Peers |-> "idle"]
  /\ drained = [p \in Peers |-> <<>>]
  /\ nSend = [p \in Peers |-> 0]
  /\ sentLog = [p \in Peers |-> <<>>]
  /\ arrived = [p \in Peers |-> <<>>]
  /\ gotLog = [p \in Peers |-> <<>>]
  /\ lost = [p \in Peers |-> FALSE]
  /\ nForeign = 0
  /\ menu = [p \in Peers |-> NewMenu]
  /\ network = [p \in Peers |-> NoNetwork]
  /\ app = [p \in Peers |-> [in_game |-> FALSE, game_map |-> <<>>]]
  /\ nSession = [p \in Peers |-> 0]
  /\ nJoin = 0
  /\ asked = [p \in Peers |-> ""]
  /\ game = [p \in Peers |-> NoGame]
  /\ nTick = [p \in Peers |-> 0]
  /\ keys = [p \in Peers |-> [ctl |-> Idle, frame_count |-> 0]]
  /\ framing = [sent |-> <<>>, rest |-> <<>>, buffer |-> <<>>,
                inbox |-> <<>>, joined |-> FALSE]
  /\ second = [up |-> FALSE, connected |-> FALSE, connPc |-> "idle",
               retry_count |-> 0, tcp |-> "none", recvPc |-> "idle"]

(***************************************************************************)
(* Sockets.                                                                *)
(***************************************************************************)
\* self.conn of p is a closed socket: the host's conn is the accepted
\* socket, the client's conn is self.sock itself.
ConnClosed(p) == IF p = "host" THEN accClosed ELSE sockClosed[p]

\* The host's listening socket accepts connections.
Listening == up["host"] /\ ~sockClosed["host"]

\* p's end of the connection is closed: the peer reads end-of-stream.  A
\* connection still in the accept queue is closed with the listening socket.
EndClosed(p) ==
  IF p = "host"
  THEN accClosed \/ (tcp = "pending" /\ sockClosed["host"])
  ELSE tcp # "none" /\ sockClosed["client"]

(***************************************************************************)
(* NetworkPeer.__init__                                                    *)
(***************************************************************************)
\* The constructor: the host binds, listens and starts _server_loop; the
\* client starts _client_loop.
Construct(p) ==
  /\ ~up[p]
  /\ up' = [up EXCEPT ![p] = TRUE]
  /\ running' = [running EXCEPT ![p] = TRUE]
  /\ connPc' = [connPc EXCEPT ![p] = "loop"]
  /\ UNCHANGED <<connected, retry_count, wire, lost, nForeign>>
  /\ UNCHANGED <<sockVars, sendVars, recvVars, appVars>>
  /\ UNCHANGED aboveVars

(***************************************************************************)
(* Public API, called from the game loop.                                  *)
(***************************************************************************)
\* send() without the test of self.connected.
SendUnchecked(p, msg, limit) ==
  /\ up[p]
  /\ nSend["host"] + nSend["client"] < limit
  /\ nSend' = [nSend EXCEPT ![p] = @ + 1]
  /\ outbox' = [outbox EXCEPT ![p] = Append(@, msg)]
  /\ sentLog' = [sentLog EXCEPT ![p] = Append(@, msg)]
  /\ UNCHANGED <<up, running, connected, retry_count, connPc, wire, sendPc,
                 messages, lost, nForeign>>
  /\ UNCHANGED <<sockVars, recvVars, appVars>>
  /\ UNCHANGED aboveVars

\* send(msg_dict); limit bounds the send() calls of the two peers together.
Send(p, msg, limit) ==
  /\ up[p]
  /\ nSend["host"] + nSend["client"] < limit
  /\ nSend' = [nSend EXCEPT ![p] = @ + 1]
  /\ IF connected[p]
     THEN /\ outbox' = [outbox EXCEPT ![p] = Append(@, msg)]
          /\ sentLog' = [sentLog EXCEPT ![p] = Append(@, msg)]
     ELSE UNCHANGED <<outbox, sentLog>>
  /\ UNCHANGED <<up, running, connected, retry_count, connPc, wire, sendPc,
                 messages, lost, nForeign>>
  /\ UNCHANGED <<sockVars, recvVars, appVars>>
  /\ UNCHANGED aboveVars

\* recv_all(): messages = []
RecvAllBegin(p) ==
  /\ up[p]
  /\ appPc[p] = "idle"
  /\ appPc' = [appPc EXCEPT ![p] = "recv_all"]
  /\ drained' = [drained EXCEPT ![p] = <<>>]
  /\ UNCHANGED <<up, running, connected, retry_count, connPc, wire, lost,
                 nForeign, gotLog>>
  /\ UNCHANGED <<sockVars, sendVars, recvVars>>
  /\ UNCHANGED aboveVars

\* recv_all() with messages = [item] in place of messages.append(item).
RecvAllStepOverwrite(p) ==
  /\ appPc[p] = "recv_all"
  /\ IF inbox[p] # <<>>
     THEN /\ drained' = [drained EXCEPT ![p] = <<Head(inbox[p])>>]
          /\ inbox' = [inbox EXCEPT ![p] = Tail(@)]
          /\ UNCHANGED <<appPc, gotLog>>
     ELSE /\ appPc' = [appPc EXCEPT ![p] = "idle"]
          /\ gotLog' = [gotLog EXCEPT ![p] = @ \o drained[p]]
          /\ drained' = [drained EXCEPT ![p] = <<>>]
          /\ UNCHANGED inbox
  /\ UNCHANGED <<up, running, connected, retry_count, connPc, wire, lost,
                 nForeign, recvPc, buffer, arrived>>
  /\ UNCHANGED <<sockVars, sendVars>>
  /\ UNCHANGED aboveVars

\* recv_all(): one test of inbox.empty(), then get_nowait() or return.
RecvAllStep(p) ==
  /\ appPc[p] = "recv_all"
  /\ IF inbox[p] # <<>>
     THEN /\ drained' = [drained EXCEPT ![p] = Append(@, Head(inbox[p]))]
          /\ inbox' = [inbox EXCEPT ![p] = Tail(@)]
          /\ UNCHANGED <<appPc, gotLog>>
     ELSE /\ appPc' = [appPc EXCEPT ![p] = "idle"]
          /\ gotLog' = [gotLog EXCEPT ![p] = @ \o drained[p]]
          /\ drained' = [drained EXCEPT ![p] = <<>>]
          /\ UNCHANGED inbox
  /\ UNCHANGED <<up, running, connected, retry_count, connPc, wire, lost,
                 nForeign, recvPc, buffer, arrived>>
  /\ UNCHANGED <<sockVars, sendVars>>
  /\ UNCHANGED aboveVars

\* stop(): running = False, connected = False, close conn if set, close sock.
Stop(p) ==
  /\ up[p]
  /\ running' = [running EXCEPT ![p] = FALSE]
  /\ connected' = [connected EXCEPT ![p] = FALSE]
  /\ accClosed' = (accClosed \/ (p = "host" /\ connSet[p]))
  /\ sockClosed' = [sockClosed EXCEPT ![p] = TRUE]
  /\ UNCHANGED <<up, connSet, retry_count, connPc, tcp, netDown, wire, lost,
                 nForeign>>
  /\ UNCHANGED <<sendVars, recvVars, appVars>>
  /\ UNCHANGED aboveVars

(***************************************************************************)
(* Connection threads.                                                     *)
(***************************************************************************)
\* connected = True, then the sender and the receiver thread are started;
\* break ends the connection thread.
MarkConnected(p) ==
  /\ connected' = [connected EXCEPT ![p] = TRUE]
  /\ sendPc' = [sendPc EXCEPT ![p] = "guard"]
  /\ recvPc' = [recvPc EXCEPT ![p] = "start"]
  /\ connPc' = [connPc EXCEPT ![p] = "done"]

\* _server_loop: the while condition.
ServerGuard ==
  /\ connPc["host"] = "loop"
  /\ connPc' = [connPc EXCEPT !["host"] =
                  IF running["host"] /\ ~connected["host"]
                  THEN "accept" ELSE "done"]
  /\ UNCHANGED <<up, running, connected, retry_count, wire, lost, nForeign>>
  /\ UNCHANGED <<sockVars, sendVars, recvVars, appVars>>
  /\ UNCHANGED aboveVars

\* _server_loop: sock.accept() with its 1 s timeout.  A closed listening
\* socket raises OSError (break), an empty accept queue times out (continue).
ServerAccept ==
  /\ connPc["host"] = "accept"
  /\ IF sockClosed["host"]
     THEN /\ connPc' = [connPc EXCEPT !["host"] = "done"]
          /\ UNCHANGED tcp
     ELSE IF tcp = "pending"
     THEN /\ connPc' = [connPc EXCEPT !["host"] = "est"]
          /\ tcp' = "accepted"
     ELSE /\ connPc' = [connPc EXCEPT !["host"] = "loop"]
          /\ UNCHANGED tcp
  /\ UNCHANGED <<up, running, connected, connSet, sockClosed, accClosed,
                 netDown, retry_count, wire, lost, nForeign>>
  /\ UNCHANGED <<sendVars, recvVars, appVars>>
  /\ UNCHANGED aboveVars

\* _server_loop: self.conn = conn
ServerSetConn ==
  /\ connPc["host"] = "est"
  /\ connSet' = [connSet EXCEPT !["host"] = TRUE]
  /\ connPc' = [connPc EXCEPT !["host"] = "opt"]
  /\ UNCHANGED <<up, running, connected, sockClosed, accClosed, tcp, netDown,
                 retry_count, wire, lost, nForeign>>
  /\ UNCHANGED <<sendVars, recvVars, appVars>>
  /\ UNCHANGED aboveVars

\* _server_loop: conn.setsockopt(TCP_NODELAY).  OSError on a socket that
\* stop() has closed leaves the loop (break).
ServerSetOpt ==
  /\ connPc["host"] = "opt"
  /\ connPc' = [connPc EXCEPT !["host"] =
                  IF accClosed THEN "done" ELSE "mark"]
  /\ UNCHANGED <<up, running, connected, retry_count, wire, lost, nForeign>>
  /\ UNCHANGED <<sockVars, sendVars, recvVars, appVars>>
  /\ UNCHANGED aboveVars

\* _server_loop: connected = True, start the two loops, break.
ServerMark ==
  /\ connPc["host"] = "mark"
  /\ MarkConnected("host")
  /\ UNCHANGED <<up, running, retry_count, wire, lost, nForeign, outbox,
                 messages, nSend, sentLog, inbox, buffer, arrived>>
  /\ UNCHANGED <<sockVars, appVars>>
  /\ UNCHANGED aboveVars

\* The client's while condition with retry_count <= max_retries.
ClientGuardOffByOne ==
  /\ connPc["client"] = "loop"
  /\ IF running["client"] /\ retry_count <= max_retries
     THEN /\ connPc' = [connPc EXCEPT !["client"] = "connect"]
          /\ UNCHANGED retry_count
     ELSE /\ connPc' = [connPc EXCEPT !["client"] =
                          IF retry_count >= max_retries
                          THEN "failed" ELSE "done"]
          /\ retry_count' = 0
  /\ UNCHANGED <<up, running, connected, wire, lost, nForeign>>
  /\ UNCHANGED <<sockVars, sendVars, recvVars, appVars>>
  /\ UNCHANGED aboveVars

\* _client_loop: the while condition.  When it fails the thread ends, and
\* its local retry_count with it: "failed" after the message "Failed to
\* connect after max retries" (the budget is used up), "done" otherwise.
ClientGuard ==
  /\ connPc["client"] = "loop"
  /\ IF running["client"] /\ retry_count < max_retries
     THEN /\ connPc' = [connPc EXCEPT !["client"] = "connect"]
          /\ UNCHANGED retry_count
     ELSE /\ connPc' = [connPc EXCEPT !["client"] =
                          IF retry_count >= max_retries
                          THEN "failed" ELSE "done"]
          /\ retry_count' = 0
  /\ UNCHANGED <<up, running, connected, wire, lost, nForeign>>
  /\ UNCHANGED <<sockVars, sendVars, recvVars, appVars>>
  /\ UNCHANGED aboveVars

\* _client_loop: sock.connect().  It succeeds when the host listens and its
\* accept queue is free; a closed socket, or no listener, raises OSError:
\* retry_count += 1, sleep(0.5), next iteration.
ClientConnect ==
  /\ connPc["client"] = "connect"
  /\ IF ~sockClosed["client"] /\ Listening /\ tcp = "none"
     THEN /\ tcp' = "pending"
          /\ connPc' = [connPc EXCEPT !["client"] = "est"]
          /\ UNCHANGED retry_count
     ELSE /\ retry_count' = retry_count + 1
          /\ connPc' = [connPc EXCEPT !["client"] = "loop"]
          /\ UNCHANGED tcp
  /\ UNCHANGED <<up, running, connected, connSet, sockClosed, accClosed,
                 netDown, wire, lost, nForeign>>
  /\ UNCHANGED <<sendVars, recvVars, appVars>>
  /\ UNCHANGED aboveVars

\* _client_loop: self.conn = self.sock; conn.setsockopt(TCP_NODELAY).
\* OSError on a closed socket counts as a failed attempt.
ClientSetConn ==
  /\ connPc["client"] = "est"
  /\ connSet' = [connSet EXCEPT !["client"] = TRUE]
  /\ IF sockClosed["client"]
     THEN /\ retry_count' = retry_count + 1
          /\ connPc' = [connPc EXCEPT !["client"] = "loop"]
     ELSE /\ connPc' = [connPc EXCEPT !["client"] = "mark"]
          /\ UNCHANGED retry_count
  /\ UNCHANGED <<up, running, connected, sockClosed, accClosed, tcp, netDown,
                 wire, lost, nForeign>>
  /\ UNCHANGED <<sendVars, recvVars, appVars>>
  /\ UNCHANGED aboveVars

\* _client_loop: connected = True, start the two loops, break.  The thread
\* ends and its local retry_count with it.
ClientMark ==
  /\ connPc["client"] = "mark"
  /\ MarkConnected("client")
  /\ retry_count' = 0
  /\ UNCHANGED <<up, running, wire, lost, nForeign, outbox, messages, nSend,
                 sentLog, inbox, buffer, arrived>>
  /\ UNCHANGED <<sockVars, appVars>>
  /\ UNCHANGED aboveVars

(***************************************************************************)
(* Sender loop.                                                            *)
(***************************************************************************)
\* The sender's while condition without the test of self.connected.
SendGuardRunningOnly(p) ==
  /\ sendPc[p] = "guard"
  /\ sendPc' = [sendPc EXCEPT ![p] = IF running[p] THEN "get" ELSE "done"]
  /\ UNCHANGED <<up, running, connected, retry_count, connPc, wire, lost,
                 nForeign, outbox, messages, nSend, sentLog>>
  /\ UNCHANGED <<sockVars, recvVars, appVars>>
  /\ UNCHANGED aboveVars

\* _send_loop: the while condition.
SendGuard(p) ==
  /\ sendPc[p] = "guard"
  /\ sendPc' = [sendPc EXCEPT ![p] =
                  IF running[p] /\ connected[p] THEN "get" ELSE "done"]
  /\ UNCHANGED <<up, running, connected, retry_count, connPc, wire, lost,
                 nForeign, outbox, messages, nSend, sentLog>>
  /\ UNCHANGED <<sockVars, recvVars, appVars>>
  /\ UNCHANGED aboveVars

\* _send_loop: messages = []; outbox.get(timeout=0.033).  On queue.Empty the
\* batch is empty, nothing is written and the loop goes round.
SendGet(p) ==
  /\ sendPc[p] = "get"
  /\ IF outbox[p] # <<>>
     THEN /\ messages' = [messages EXCEPT ![p] = <<Head(outbox[p])>>]
          /\ outbox' = [outbox EXCEPT ![p] = Tail(@)]
          /\ sendPc' = [sendPc EXCEPT ![p] = "more"]
     ELSE /\ sendPc' = [sendPc EXCEPT ![p] = "guard"]
          /\ UNCHANGED <<messages, outbox>>
  /\ UNCHANGED <<up, running, connected, retry_count, connPc, wire, lost,
                 nForeign, nSend, sentLog>>
  /\ UNCHANGED <<sockVars, recvVars, appVars>>
  /\ UNCHANGED aboveVars

\* The batch loop with messages.insert(0, item) in place of append.
SendMoreInsertFirst(p) ==
  /\ sendPc[p] = "more"
  /\ Len(messages[p]) < BATCH_MAX
  /\ outbox[p] # <<>>
  /\ messages' = [messages EXCEPT ![p] = <<Head(outbox[p])>> \o @]
  /\ outbox' = [outbox EXCEPT ![p] = Tail(@)]
  /\ UNCHANGED <<up, running, connected, retry_count, connPc, wire, lost,
                 nForeign, sendPc, nSend, sentLog>>
  /\ UNCHANGED <<sockVars, recvVars, appVars>>
  /\ UNCHANGED aboveVars

\* _send_loop: while len(messages) < 5: messages.append(outbox.get_nowait())
SendMore(p) ==
  /\ sendPc[p] = "more"
  /\ Len(messages[p]) < BATCH_MAX
  /\ outbox[p] # <<>>
  /\ messages' = [messages EXCEPT ![p] = Append(@, Head(outbox[p]))]
  /\ outbox' = [outbox EXCEPT ![p] = Tail(@)]
  /\ UNCHANGED <<up, running, connected, retry_count, connPc, wire, lost,
                 nForeign, sendPc, nSend, sentLog>>
  /\ UNCHANGED <<sockVars, recvVars, appVars>>
  /\ UNCHANGED aboveVars

\* The batch is complete: five messages, or queue.Empty from get_nowait().
BatchDone(p) ==
  /\ sendPc[p] = "more"
  /\ Len(messages[p]) >= BATCH_MAX \/ outbox[p] = <<>>

\* data = "".join(json.dumps(msg) + "\n" for msg in messages)
Encode(batch) == [i \in 1..Len(batch) |-> Line(batch[i])]

\* conn.sendall() raises OSError: connected = False, break.
SendFails(p) ==
  /\ connected' = [connected EXCEPT ![p] = FALSE]
  /\ lost' = [lost EXCEPT ![p] = TRUE]
  /\ sendPc' = [sendPc EXCEPT ![p] = "done"]
  /\ UNCHANGED wire

\* sendall() of the first message only in place of the joined batch.
SendWriteFirstOnly(p) ==
  /\ BatchDone(p)
  /\ ~ConnClosed(p)
  /\ ~netDown
  /\ wire' = [wire EXCEPT ![Other(p)] =
                IF EndClosed(Other(p))
                THEN @ ELSE @ \o Encode(<<Head(messages[p])>>)]
  /\ sendPc' = [sendPc EXCEPT ![p] = "guard"]
  /\ messages' = [messages EXCEPT ![p] = <<>>]
  /\ UNCHANGED <<up, running, connected, retry_count, connPc, lost, nForeign,
                 outbox, nSend, sentLog>>
  /\ UNCHANGED <<sockVars, recvVars, appVars>>
  /\ UNCHANGED aboveVars

\* _send_loop: conn.sendall(data) returns: the records are on the stream
\* (or discarded, when the other end is closed).
SendWrite(p) ==
  /\ BatchDone(p)
  /\ ~ConnClosed(p)
  /\ ~netDown
  /\ wire' = [wire EXCEPT ![Other(p)] =
                IF EndClosed(Other(p)) THEN @ ELSE @ \o Encode(messages[p])]
  /\ sendPc' = [sendPc EXCEPT ![p] = "guard"]
  /\ messages' = [messages EXCEPT ![p] = <<>>]
  /\ UNCHANGED <<up, running, connected, retry_count, connPc, lost, nForeign,
                 outbox, nSend, sentLog>>
  /\ UNCHANGED <<sockVars, recvVars, appVars>>
  /\ UNCHANGED aboveVars

\* _send_loop: conn.sendall(data) raises OSError: the socket was closed by
\* stop(), the connection was reset, or the other end is closed.
SendError(p) ==
  /\ BatchDone(p)
  /\ ConnClosed(p) \/ netDown \/ EndClosed(Other(p))
  /\ SendFails(p)
  /\ messages' = [messages EXCEPT ![p] = <<>>]
  /\ UNCHANGED <<up, running, retry_count, connPc, nForeign, outbox, nSend,
                 sentLog>>
  /\ UNCHANGED <<sockVars, recvVars, appVars>>
  /\ UNCHANGED aboveVars

(***************************************************************************)
(* Receiver loop.                                                          *)
(***************************************************************************)
\* _recv_loop: buffer = b""; conn.settimeout(0.033).  The call is outside
\* the try: on a socket that stop() has closed the OSError ends the thread.
RecvStart(p) ==
  /\ recvPc[p] = "start"
  /\ recvPc' = [recvPc EXCEPT ![p] =
                  IF ConnClosed(p) THEN "crashed" ELSE "guard"]
  /\ UNCHANGED <<up, running, connected, retry_count, connPc, wire, lost,
                 nForeign, inbox, buffer, arrived>>
  /\ UNCHANGED <<sockVars, sendVars, appVars>>
  /\ UNCHANGED aboveVars

\* The receiver's while condition without the test of self.running.
RecvGuardConnectedOnly(p) ==
  /\ recvPc[p] = "guard"
  /\ recvPc' = [recvPc EXCEPT ![p] = IF connected[p] THEN "recv" ELSE "done"]
  /\ UNCHANGED <<up, running, connected, retry_count, connPc, wire, lost,
                 nForeign, inbox, buffer, arrived>>
  /\ UNCHANGED <<sockVars, sendVars, appVars>>
  /\ UNCHANGED aboveVars

\* _recv_loop: the while condition.
RecvGuard(p) ==
  /\ recvPc[p] = "guard"
  /\ recvPc' = [recvPc EXCEPT ![p] =
                  IF running[p] /\ connected[p] THEN "recv" ELSE "done"]
  /\ UNCHANGED <<up, running, connected, retry_count, connPc, wire, lost,
                 nForeign, inbox, buffer, arrived>>
  /\ UNCHANGED <<sockVars, sendVars, appVars>>
  /\ UNCHANGED aboveVars

\* The receiver leaving on an error without connected = False.
RecvFailsKeepFlag(p) ==
  /\ lost' = [lost EXCEPT ![p] = TRUE]
  /\ recvPc' = [recvPc EXCEPT ![p] = "done"]
  /\ UNCHANGED connected

\* The loop leaves with connected = False: an empty chunk or an OSError.
RecvFails(p) ==
  /\ connected' = [connected EXCEPT ![p] = FALSE]
  /\ lost' = [lost EXCEPT ![p] = TRUE]
  /\ recvPc' = [recvPc EXCEPT ![p] = "done"]

\* conn.recv(8192) can return data.
Readable(p) == ~ConnClosed(p) /\ ~netDown

\* _recv_loop: chunk = conn.recv(8192) returns k records; buffer += chunk.
RecvData(p) ==
  /\ recvPc[p] = "recv"
  /\ Readable(p)
  /\ wire[p] # <<>>
  /\ \E k \in 1..Len(wire[p]) :
       /\ buffer' = [buffer EXCEPT ![p] = SubSeq(wire[p], 1, k)]
       /\ wire' = [wire EXCEPT ![p] = SubSeq(@, k + 1, Len(@))]
  /\ recvPc' = [recvPc EXCEPT ![p] = "parse"]
  /\ UNCHANGED <<up, running, connected, retry_count, connPc, lost, nForeign,
                 inbox, arrived>>
  /\ UNCHANGED <<sockVars, sendVars, appVars>>
  /\ UNCHANGED aboveVars

\* _recv_loop: conn.recv() raises socket.timeout: continue.
RecvTimeout(p) ==
  /\ recvPc[p] = "recv"
  /\ Readable(p)
  /\ wire[p] = <<>>
  /\ ~EndClosed(Other(p))
  /\ recvPc' = [recvPc EXCEPT ![p] = "guard"]
  /\ UNCHANGED <<up, running, connected, retry_count, connPc, wire, lost,
                 nForeign, inbox, buffer, arrived>>
  /\ UNCHANGED <<sockVars, sendVars, appVars>>
  /\ UNCHANGED aboveVars

\* _recv_loop: conn.recv() returns b"": the peer closed; connected = False.
RecvEof(p) ==
  /\ recvPc[p] = "recv"
  /\ Readable(p)
  /\ wire[p] = <<>>
  /\ EndClosed(Other(p))
  /\ RecvFails(p)
  /\ UNCHANGED <<up, running, retry_count, connPc, wire, nForeign, inbox,
                 buffer, arrived>>
  /\ UNCHANGED <<sockVars, sendVars, appVars>>
  /\ UNCHANGED aboveVars

\* _recv_loop: conn.recv() raises OSError: connected = False.
RecvError(p) ==
  /\ recvPc[p] = "recv"
  /\ ~Readable(p)
  /\ RecvFails(p)
  /\ UNCHANGED <<up, running, retry_count, connPc, wire, nForeign, inbox,
                 buffer, arrived>>
  /\ UNCHANGED <<sockVars, sendVars, appVars>>
  /\ UNCHANGED aboveVars

\* What the body of "while b'\n' in buffer" does with one record:
\*   skip   line.strip() is empty
\*   put    json.loads() returns, inbox.put(msg)
\*   pass   json.loads() raises JSONDecodeError, caught
\*   raise  line.decode("utf-8") raises UnicodeDecodeError, which no except
\*          clause of the loop catches: the thread ends
ParseOutcome(rec) ==
  CASE rec = BLANK -> "skip"
    [] rec = NOT_UTF8 -> "raise"
    [] rec = NOT_JSON -> "pass"
    [] OTHER -> "put"

\* _recv_loop: one iteration of the parse loop.
RecvParse(p) ==
  /\ recvPc[p] = "parse"
  /\ buffer[p] # <<>>
  /\ LET rec == Head(buffer[p])
         out == ParseOutcome(rec)
     IN /\ IF out = "put"
           THEN /\ inbox' = [inbox EXCEPT ![p] = Append(@, JsonLoads(rec[2]))]
                /\ arrived' = [arrived EXCEPT ![p] =
                                 Append(@, JsonLoads(rec[2]))]
           ELSE UNCHANGED <<inbox, arrived>>
        /\ IF out = "raise"
           THEN /\ recvPc' = [recvPc EXCEPT ![p] = "crashed"]
                /\ buffer' = [buffer EXCEPT ![p] = <<>>]
           ELSE /\ buffer' = [buffer EXCEPT ![p] = Tail(@)]
                /\ recvPc' = [recvPc EXCEPT ![p] =
                                IF Tail(buffer[p]) = <<>>
                                THEN "guard" ELSE "parse"]
  /\ UNCHANGED <<up, running, connected, retry_count, connPc, wire, lost,
                 nForeign>>
  /\ UNCHANGED <<sockVars, sendVars, appVars>>
  /\ UNCHANGED aboveVars

(***************************************************************************)
(* Framing.  The receiver of _recv_loop fed byte by byte.  The bytes are   *)
(* the digits 1 and 2, the space and the newline: a line is a JSON text    *)
(* when, stripped of spaces, it is a non-empty run of digits (json.loads   *)
(* returns the int), and it raises JSONDecodeError when a space stands     *)
(* between digits.                                                         *)
(***************************************************************************)
NL == "\n"

SP == " "

Bytes == {"1", "2", SP, NL}

\* b"\n" in buffer
HasNL(b) == \E i \in 1..Len(b) : b[i] = NL

\* The index of the first newline of b.
FirstNL(b) == CHOOSE i \in 1..Len(b) : b[i] = NL /\ \A j \in 1..(i - 1) : b[j] # NL

RECURSIVE Strip(_)
\* line.strip(): the line without its leading and trailing spaces.
Strip(line) ==
  IF line = <<>> THEN <<>>
  ELSE IF Head(line) = SP THEN Strip(Tail(line))
  ELSE IF line[Len(line)] = SP THEN Strip(SubSeq(line, 1, Len(line) - 1))
  ELSE line

\* json.loads accepts the line: spaces around a run of digits.
IsJson(line) == Strip(line) # <<>> /\ \A i \in 1..Len(Strip(line)) : Strip(line)[i] # SP

RECURSIVE DigitsValue(_)
\* The int a run of digits denotes.
DigitsValue(d) ==
  IF d = <<>> THEN 0
  ELSE 10 * DigitsValue(SubSeq(d, 1, Len(d) - 1))
         + (IF d[Len(d)] = "1" THEN 1 ELSE 2)

RECURSIVE ParseBuffer(_, _)
\* while b"\n" in buffer: line, buffer = buffer.split(b"\n", 1); a line
\* that is not blank is decoded and put into the inbox, unless json.loads
\* raises JSONDecodeError.  The result is the pair (buffer, inbox).
ParseBuffer(b, q) ==
  IF ~HasNL(b) THEN <<b, q>>
  ELSE LET line == SubSeq(b, 1, FirstNL(b) - 1)
           rest == SubSeq(b, FirstNL(b) + 1, Len(b))
       IN ParseBuffer(rest,
                      IF Strip(line) # <<>> /\ IsJson(line)
                      THEN Append(q, PInt(DigitsValue(Strip(line))))
                      ELSE q)

\* The writer at the other end puts one more byte on the stream.
FrameWrite(b) ==
  /\ Len(framing.sent) < MaxStream
  /\ framing' = [framing EXCEPT !.sent = Append(@, b), !.rest = Append(@, b)]
  /\ UNCHANGED <<peerVars, appVarsAll, second>>

\* One round of _recv_loop with buffer = chunk in place of buffer += chunk.
FrameRecvForgetful(k) ==
  /\ k \in 1..Len(framing.rest)
  /\ LET chunk == SubSeq(framing.rest, 1, k)
         out == ParseBuffer(chunk, framing.inbox)
     IN framing' = [framing EXCEPT
                      !.rest = SubSeq(@, k + 1, Len(@)),
                      !.buffer = out[1],
                      !.inbox = out[2],
                      !.joined = @ \/ (framing.buffer # <<>>
                                         /\ Len(out[2]) > Len(framing.inbox)
                                         /\ Strip(framing.buffer) # <<>>)]
  /\ UNCHANGED <<peerVars, appVarsAll, second>>

\* One round of _recv_loop: chunk = conn.recv(8192) returns the next k
\* bytes; buffer += chunk; the parse loop.  joined records that the round
\* started with part of a record in the buffer and enqueued a message.
FrameRecv(k) ==
  /\ k \in 1..Len(framing.rest)
  /\ LET chunk == SubSeq(framing.rest, 1, k)
         out == ParseBuffer(framing.buffer \o chunk, framing.inbox)
     IN framing' = [framing EXCEPT
                      !.rest = SubSeq(@, k + 1, Len(@)),
                      !.buffer = out[1],
                      !.inbox = out[2],
                      !.joined = @ \/ (framing.buffer # <<>>
                                         /\ Len(out[2]) > Len(framing.inbox)
                                         /\ Strip(framing.buffer) # <<>>)]
  /\ UNCHANGED <<peerVars, appVarsAll, second>>

(***************************************************************************)
(* A second client.  The host calls sock.listen(1) and accepts once; its   *)
(* listening socket stays open until stop().  The kernel completes the     *)
(* handshake of a later connection into the accept queue, where it stays:  *)
(* _server_loop has ended and nothing accepts it.                          *)
(***************************************************************************)
\* NetworkPeer(is_server=False, ...) constructed on a third machine after
\* the host has accepted the first client.
SecondConstruct ==
  /\ ~second.up
  /\ tcp = "accepted"
  /\ second' = [second EXCEPT !.up = TRUE, !.connPc = "loop"]
  /\ UNCHANGED <<peerVars, appVarsAll, framing>>

\* _client_loop of the second client: the while condition (nobody stops the
\* second client).
SecondGuard ==
  /\ second.connPc = "loop"
  /\ second' = [second EXCEPT
                  !.connPc = IF second.retry_count < max_retries
                             THEN "connect" ELSE "failed"]
  /\ UNCHANGED <<peerVars, appVarsAll, framing>>

\* _client_loop of the second client: sock.connect().  While the host's
\* listening socket is open the connection is queued and connect() returns;
\* otherwise OSError: retry_count += 1, sleep(0.5).
SecondConnect ==
  /\ second.connPc = "connect"
  /\ second' = IF Listening
               THEN [second EXCEPT !.tcp = "queued", !.connPc = "mark"]
               ELSE [second EXCEPT !.retry_count = @ + 1, !.connPc = "loop"]
  /\ UNCHANGED <<peerVars, appVarsAll, framing>>

\* _client_loop of the second client: conn = sock, setsockopt,
\* connected = True, the two loops are started, break.
SecondMark ==
  /\ second.connPc = "mark"
  /\ second' = [second EXCEPT !.connected = TRUE, !.connPc = "done",
                              !.recvPc = "guard"]
  /\ UNCHANGED <<peerVars, appVarsAll, framing>>

\* _recv_loop of the second client: the while condition.
SecondRecvGuard ==
  /\ second.recvPc = "guard"
  /\ second' = [second EXCEPT
                  !.recvPc = IF second.connected THEN "recv" ELSE "done"]
  /\ UNCHANGED <<peerVars, appVarsAll, framing>>

\* _recv_loop of the second client: conn.recv().  Nobody writes to the
\* queued connection: the call times out, until the host closes its
\* listening socket and the queued connection with it (an empty chunk or an
\* OSError: connected = False, break).
SecondRecv ==
  /\ second.recvPc = "recv"
  /\ second' = IF Listening
               THEN [second EXCEPT !.recvPc = "guard"]
               ELSE [second EXCEPT !.connected = FALSE, !.recvPc = "done"]
  /\ UNCHANGED <<peerVars, appVarsAll, framing>>

SecondClient ==
  \/ SecondConstruct \/ SecondGuard \/ SecondConnect \/ SecondMark
  \/ SecondRecvGuard \/ SecondRecv

(***************************************************************************)
(* The application: one frame of TankTankApp.update while the menu is      *)
(* shown.  The user presses at most one key in a frame; typing a name or   *)
(* an address is one key.                                                  *)
(***************************************************************************)
\* The keys the menu of side p reads in its state; any other key leaves the
\* frame as if none was pressed.
KeysRead(p) ==
  CASE menu[p].state = "MAIN_MENU" -> {"none", "SPACE"}
    [] menu[p].state \in {"ENTER_NAME", "ENTER_IP"} ->
         {"none", "type", "RETURN", "B"}
    [] menu[p].state = "LOBBY" /\ menu[p].is_host -> {"none", "RETURN", "B"}
    [] OTHER -> {"none", "B"}

\* The outcomes of bind() in a frame: it is called only when the host
\* confirms its name.
BindOutcomes(p, key) ==
  IF p = "host" /\ menu[p].state = "ENTER_NAME" /\ key = "RETURN"
  THEN BOOLEAN ELSE {TRUE}

\* The maps MapGenerator.generate() can return in a frame: it is called
\* when a game starts.
MapOutcomes(p, key) ==
  IF (p = "host" /\ menu[p].state = "LOBBY" /\ key = "RETURN")
       \/ (p = "client" /\ inbox[p] # <<>>)
  THEN Maps ELSE {CHOOSE m \in Maps : TRUE}

\* The name the user on side p types.
TypedName(p) == IF p = "host" THEN "Host" ELSE "Ann"

\* Menu.update(network_manager): the menu after the frame and the action it
\* returns ("" for None).  The user of the host machine selects HOST NETWORK
\* GAME, the user of the client machine JOIN BY IP ADDRESS.
MenuUpdate(m, net, key, p) ==
  CASE m.state = "MAIN_MENU" ->
         IF key \in {"SPACE", "RETURN"}
         THEN <<[m EXCEPT !.is_host = (p = "host"),
                          !.state = IF p = "host"
                                    THEN "ENTER_NAME" ELSE "ENTER_IP"], "">>
         ELSE <<m, "">>
    [] m.state = "ENTER_NAME" ->
         CASE key = "type" -> <<[m EXCEPT !.player_name = TypedName(p)], "">>
           [] key = "RETURN" ->
                IF m.player_name # ""
                THEN <<[m EXCEPT !.state = "NETWORK_SETUP"], "setup_network">>
                ELSE <<[m EXCEPT !.error_message = "Name cannot be empty!"],
                       "">>
           [] key = "B" ->
                <<[m EXCEPT !.state = "MAIN_MENU", !.player_name = "",
                            !.error_message = ""], "">>
           [] OTHER -> <<m, "">>
    [] m.state = "ENTER_IP" ->
         CASE key = "type" -> <<[m EXCEPT !.host_ip = "192.168.1.100"], "">>
           [] key = "RETURN" ->
                IF m.host_ip # ""
                THEN <<[m EXCEPT !.state = "ENTER_NAME"], "">>
                ELSE <<[m EXCEPT !.error_message = "Invalid IP format!"], "">>
           [] key = "B" ->
                <<[m EXCEPT !.state = "MAIN_MENU", !.host_ip = "",
                            !.error_message = ""], "">>
           [] OTHER -> <<m, "">>
    [] m.state = "NETWORK_SETUP" ->
         IF key = "B"
         THEN <<[m EXCEPT !.state = "MAIN_MENU"], "cancel_network">>
         ELSE IF net.exists /\ net.running
         THEN <<[m EXCEPT !.state = "CONNECTING"], "">>
         ELSE <<m, "">>
    [] m.state = "CONNECTING" ->
         IF net.exists /\ m.is_host /\ net.clients
         THEN <<[m EXCEPT !.state = "LOBBY"], "">>
         ELSE IF net.exists /\ ~m.is_host /\ net.host_address
         THEN <<[m EXCEPT !.state = "LOBBY"], "join_lobby">>
         ELSE IF key = "B"
         THEN <<[m EXCEPT !.state = "MAIN_MENU",
                          !.error_message = "Connection cancelled"],
                "cancel_network">>
         ELSE <<m, "">>
    [] OTHER ->
         IF m.is_host /\ key = "RETURN"
         THEN IF net.exists /\ net.clients
              THEN <<m, "start_network">>
              ELSE <<[m EXCEPT !.error_message = "Need at least 2 players!"],
                     "">>
         ELSE IF key = "B"
         THEN <<[m EXCEPT !.state = "MAIN_MENU"], "cancel_network">>
         ELSE <<m, "">>

\* The other side is not attached to a connection with side p: a new
\* NetworkPeer on side p starts with a connection of its own.
Detached(q) ==
  \/ tcp = "none"
  \/ ~up[q]
  \/ /\ ~connected[q]
     /\ connPc[q] \in {"done", "failed"}
     /\ sendPc[q] \in {"idle", "done"}
     /\ recvPc[q] \in {"idle", "done", "crashed"}

\* The menu states in which a network session exists before the game.
PreGame == {"NETWORK_SETUP", "CONNECTING", "LOBBY"}

\* The app keeping the manager after stop().
ManagerStopKeeps(net) == [net EXCEPT !.running = FALSE]

\* _update_menu: self.network.stop(); self.network = None
ManagerStop(net) == NoNetwork

\* The bind failure leaving the menu where it is, without a message.
BindFailureSilent(m) == m

\* _update_menu: the host's manager has no connection_established: the
\* error message and back to the main menu.
BindFailure(m) ==
  [m EXCEPT !.state = "MAIN_MENU",
            !.error_message = "Failed to bind port 9999"]

\* NetworkManager.update() as _update_menu calls it: the manager after the
\* call and the messages it passed to peer.send().
ManagerUpdate(p) ==
  IF network[p].exists
  THEN HandleAll(NoteConnected(network[p], connected[p]),
                 IF network[p].peer THEN inbox[p] ELSE <<>>,
                 connected[p], <<>>)
  ELSE <<network[p], <<>> >>

\* _update_menu after network.update(): a client whose manager has the
\* start signal starts the game and returns; otherwise menu.update().
MenuStep(p, net1, key) ==
  IF net1.exists /\ ~menu[p].is_host /\ net1.game_starting
  THEN <<menu[p], "client_start">>
  ELSE MenuUpdate(menu[p], net1, key, p)

\* _update_menu: what the frame does, given the manager after update()
\* (net1), what update() sent (out1), the menu after menu.update() (m1), the
\* action it returned and the manager "setup_network" would create (made).
AppAct(p, key, msgs, net1, out1, m1, action, made, game_map) ==
  LET conn == connected[p]
      create == action = "setup_network" /\ ~net1.exists
      failed == create /\ m1.is_host /\ ~made.connection_established
      construct == create /\ made.peer
      cancel == action = "cancel_network" /\ net1.exists
      out2 == CASE action = "join_lobby" /\ net1.exists /\ net1.peer /\ conn ->
                     <<JoinMsg(m1.player_name)>>
                [] action = "start_network" /\ RosterSent(net1, conn) ->
                     <<StartMsg(net1.player_names, game_map)>>
                [] OTHER -> <<>>
      out == out1 \o out2
      width == IF net1.map_width = PNone THEN MapWidth ELSE net1.map_width[2]
      height == IF net1.map_height = PNone
                THEN MapHeight ELSE net1.map_height[2]
  IN /\ create => nSession[p] < MaxSession
     /\ construct /\ up[p] => Detached(Other(p))
     /\ menu' = [menu EXCEPT ![p] =
                   IF failed THEN BindFailure(m1) ELSE m1]
     /\ network' = [network EXCEPT ![p] =
                      IF cancel THEN ManagerStop(net1)
                      ELSE IF failed THEN ManagerStop(made)
                      ELSE IF create THEN made
                      ELSE net1]
     /\ app' = [app EXCEPT ![p] =
                  CASE action = "client_start" ->
                         [in_game |-> TRUE,
                          game_map |->
                            IF net1.shared_map_data = PNone
                            THEN game_map
                            ELSE Rebuild(net1.shared_map_data[2], width,
                                         height)]
                    [] action = "start_network" ->
                         [in_game |-> TRUE, game_map |-> game_map]
                    [] OTHER -> @]
     /\ game' = [game EXCEPT ![p] =
                   IF action \in {"client_start", "start_network"}
                   THEN NewGame(m1.is_host) ELSE @]
     /\ nSession' = [nSession EXCEPT ![p] = IF create THEN @ + 1 ELSE @]
     /\ nJoin' = IF p # "host" THEN nJoin
                ELSE IF create \/ cancel THEN 0
                ELSE nJoin + JoinCount(msgs)
     /\ asked' = [asked EXCEPT ![p] =
                    IF key = "B" /\ menu[p].state \in PreGame
                         /\ network[p].exists
                    THEN "cancel"
                    ELSE IF create /\ m1.is_host /\ ~made.peer
                    THEN "bind_failed"
                    ELSE ""]
     \* NetworkPeer(...): a new object with a new socket
     /\ up' = [up EXCEPT ![p] = @ \/ construct]
     /\ running' = [running EXCEPT ![p] = (@ \/ construct) /\ ~cancel]
     /\ connPc' = [connPc EXCEPT ![p] = IF construct THEN "loop" ELSE @]
     /\ sendPc' = [sendPc EXCEPT ![p] = IF construct THEN "idle" ELSE @]
     /\ recvPc' = [recvPc EXCEPT ![p] = IF construct THEN "idle" ELSE @]
     /\ messages' = [messages EXCEPT ![p] = IF construct THEN <<>> ELSE @]
     /\ buffer' = [buffer EXCEPT ![p] = IF construct THEN <<>> ELSE @]
     /\ connSet' = [connSet EXCEPT ![p] = IF construct THEN FALSE ELSE @]
     /\ lost' = [lost EXCEPT ![p] = IF construct THEN FALSE ELSE @]
     /\ retry_count' = IF construct /\ p = "client" THEN 0 ELSE retry_count
     /\ tcp' = IF construct THEN "none" ELSE tcp
     /\ netDown' = IF construct THEN FALSE ELSE netDown
     /\ wire' = IF construct THEN [q \in Peers |-> <<>>] ELSE wire
     /\ arrived' = [arrived EXCEPT ![p] = IF construct THEN <<>> ELSE @]
     \* peer.stop()
     /\ connected' = [connected EXCEPT ![p] = @ /\ ~cancel /\ ~construct]
     /\ accClosed' = IF construct THEN FALSE
                     ELSE accClosed \/ (cancel /\ p = "host" /\ connSet[p])
     /\ sockClosed' = [sockClosed EXCEPT ![p] = (@ \/ cancel) /\ ~construct]
     \* peer.recv_all()
     /\ inbox' = [inbox EXCEPT ![p] = IF construct THEN <<>>
                                      ELSE IF msgs = <<>> THEN @ ELSE <<>>]
     /\ gotLog' = [gotLog EXCEPT ![p] = IF construct THEN <<>> ELSE @ \o msgs]
     \* peer.send(): the manager has found the peer connected
     /\ outbox' = [outbox EXCEPT ![p] = IF construct THEN <<>> ELSE @ \o out]
     /\ sentLog' = [sentLog EXCEPT ![p] = IF construct THEN <<>> ELSE @ \o out]
     /\ nSend' = [nSend EXCEPT ![p] = IF construct THEN 0 ELSE @ + Len(out)]
     /\ UNCHANGED <<nForeign, appPc, drained, nTick, keys, framing, second>>

\* TankTankApp.update with in_game false: _update_menu.  bound tells whether
\* the host's port can be bound, game_map is what MapGenerator.generate()
\* returns if it is called.
AppFrame(p, key, bound, game_map) ==
  /\ ~app[p].in_game
  /\ \E upd \in {ManagerUpdate(p)} :
       \E mu \in {MenuStep(p, upd[1], key)} :
         \E made \in {NewManager(mu[1].is_host, mu[1].host_ip, bound)} :
           \E msgs \in {IF network[p].exists /\ network[p].peer
                        THEN inbox[p] ELSE <<>>} :
             AppAct(p, key, msgs, upd[1], upd[2], mu[1], mu[2], made,
                    game_map)

\* The bullets (or mines) that come near a player in one tick: the id of
\* the owner and the id of the player they come near.
Near == [owner_id : PlayerIds, near : PlayerIds]

\* A tick in which no key is held or pressed, the frame count is no
\* multiple of 15 and nothing comes near a player.
QuietTick ==
  [ctl |-> Idle, frame_count |-> 1, bullets |-> <<>>, mines |-> <<>>,
   spawn |-> NoItem]

\* The inputs of a tick of the match: the bullets and the mines that come
\* near a player in it, one bullet or one mine at most.
TickInputs ==
  {QuietTick} \cup {[QuietTick EXCEPT !.bullets = <<b>>] : b \in Near}
              \cup {[QuietTick EXCEPT !.mines = <<m>>] : m \in Near}

\* TankTankApp.update with in_game true: _update_game.  GameInstance.update
\* returns at once when the game is over (R starts it again on the same map);
\* otherwise it takes the messages of network.update(), applies them and
\* runs the tick.  ESCAPE on a game that is over returns to the menu.  Q,
\* which ends the program, is not modelled.
Frame(p, key, in) ==
  /\ app[p].in_game
  /\ game[p].exists
  /\ \E over \in {game[p].game_over} :
     \E upd \in {IF over THEN <<network[p], <<>> >> ELSE ManagerUpdate(p)} :
     \E msgs \in {IF over THEN <<>> ELSE inbox[p]} :
     \E r \in {IF over
               THEN <<IF key = "R"
                      THEN [NewGame(game[p].is_host) EXCEPT
                              !.round = game[p].round + 1]
                      ELSE game[p], <<>> >>
               ELSE GameUpdate(game[p], msgs, in)} :
     \E leave \in {key = "ESCAPE" /\ r[1].game_over} :
     \E out \in {IF connected[p] THEN upd[2] \o r[2] ELSE <<>>} :
       /\ game' = [game EXCEPT ![p] = IF leave THEN NoGame ELSE r[1]]
       /\ nTick' = [nTick EXCEPT ![p] = @ + 1]
       /\ keys' = [keys EXCEPT ![p] = [ctl |-> in.ctl,
                                       frame_count |-> in.frame_count]]
       /\ network' = [network EXCEPT ![p] =
                        IF leave THEN ManagerStop(upd[1]) ELSE upd[1]]
       /\ app' = [app EXCEPT ![p] =
                    IF leave THEN [in_game |-> FALSE, game_map |-> <<>>]
                    ELSE @]
       /\ menu' = [menu EXCEPT ![p] = IF leave THEN NewMenu ELSE @]
       \* peer.stop()
       /\ running' = [running EXCEPT ![p] = @ /\ ~leave]
       /\ connected' = [connected EXCEPT ![p] = @ /\ ~leave]
       /\ accClosed' = (accClosed \/ (leave /\ p = "host" /\ connSet[p]))
       /\ sockClosed' = [sockClosed EXCEPT ![p] = @ \/ leave]
       \* peer.recv_all()
       /\ inbox' = [inbox EXCEPT ![p] = IF over THEN @ ELSE <<>>]
       /\ gotLog' = [gotLog EXCEPT ![p] = @ \o msgs]
       \* peer.send()
       /\ outbox' = [outbox EXCEPT ![p] = @ \o out]
       /\ sentLog' = [sentLog EXCEPT ![p] = @ \o out]
       /\ nSend' = [nSend EXCEPT ![p] = @ + Len(out)]
  /\ UNCHANGED <<up, connSet, retry_count, connPc, tcp, netDown, wire,
                 sendPc, messages, recvPc, buffer, appPc, drained, arrived,
                 lost, nForeign, nSession, nJoin, asked, framing, second>>

\* A frame of the game of side p among the first MaxTick.
GameFrame(p, key, in) ==
  /\ nTick[p] < MaxTick
  /\ Frame(p, key, in)

(***************************************************************************)
(* Environment.                                                            *)
(***************************************************************************)
\* The network resets the connection: what is in flight is lost and every
\* later sendall() and recv() on it raises OSError.
NetFail ==
  /\ tcp # "none"
  /\ ~netDown
  /\ netDown' = TRUE
  /\ wire' = [p \in Peers |-> <<>>]
  /\ UNCHANGED <<up, running, connected, connSet, sockClosed, accClosed,
                 retry_count, connPc, tcp, lost, nForeign>>
  /\ UNCHANGED <<sendVars, recvVars, appVars>>
  /\ UNCHANGED aboveVars

\* A writer that is not a NetworkPeer puts one record on the stream to p.
ForeignWrite(p, rec, limit) ==
  /\ tcp # "none"
  /\ ~netDown
  /\ nForeign < limit
  /\ nForeign' = nForeign + 1
  /\ wire' = [wire EXCEPT ![p] = Append(@, rec)]
  /\ UNCHANGED <<up, running, connected, retry_count, connPc, lost>>
  /\ UNCHANGED <<sockVars, sendVars, recvVars, appVars>>
  /\ UNCHANGED aboveVars

(***************************************************************************)
(* Specifications.                                                         *)
(***************************************************************************)
ServerThread ==
  \/ ServerGuard \/ ServerAccept \/ ServerSetConn \/ ServerSetOpt
  \/ ServerMark

ClientThread ==
  \/ ClientGuard \/ ClientConnect \/ ClientSetConn \/ ClientMark

\* The steps of the loops on a healthy connection, and all their steps.
SendSteps(p) == SendGuard(p) \/ SendGet(p) \/ SendMore(p) \/ SendWrite(p)

SendThread(p) == SendSteps(p) \/ SendError(p)

RecvSteps(p) ==
  \/ RecvStart(p) \/ RecvGuard(p) \/ RecvData(p) \/ RecvTimeout(p)
  \/ RecvParse(p)

RecvThread(p) == RecvSteps(p) \/ RecvEof(p) \/ RecvError(p)

RecvAll(p) == RecvAllBegin(p) \/ RecvAllStep(p)

Threads ==
  \/ ServerThread
  \/ ClientThread
  \/ \E p \in Peers : SendThread(p)
  \/ \E p \in Peers : RecvThread(p)

\* The general specification: the two peers of the test harness send, and
\* stop() and a connection reset can come at any moment.
Next ==
  \/ \E p \in Peers : Construct(p)
  \/ \E p \in Peers : Send(p, HarnessMsg(p, nSend[p]), MaxSend)
  \/ \E p \in Peers : Stop(p)
  \/ NetFail
  \/ Threads

Spec == Init /\ [][Next]_vars

\* The burst specification: the server of the test harness waits until it
\* is connected, sends a burst of messages and stops; the client drains them
\* with recv_all().
NextOrder ==
  \/ \E p \in Peers : Construct(p)
  \/ connected["host"] /\ Send("host", ServerMsg(nSend["host"]), MaxBurst)
  \/ RecvAll("client")
  \/ Stop("host")
  \/ Threads

SpecOrder == Init /\ [][NextOrder]_vars

\* The scheduler runs every thread that can take a step, and every blocking
\* call of the loops has a timeout.
ThreadFairness ==
  /\ WF_vars(ServerThread)
  /\ WF_vars(ClientThread)
  /\ \A p \in Peers : WF_vars(SendThread(p)) /\ WF_vars(RecvThread(p))

\* Fair scheduling of the threads; the server of the test harness sends once
\* it is connected, and either peer can be stopped at any moment.
NextFair ==
  \/ \E p \in Peers : Construct(p)
  \/ connected["host"] /\ Send("host", ServerMsg(nSend["host"]), MaxLiveSend)
  \/ \E p \in Peers : Stop(p)
  \/ Threads

FairSpec == Init /\ [][NextFair]_vars /\ ThreadFairness

\* The healthy session: nobody stops and the connection is not lost, both
\* peers of the test harness send once they are connected and both drain
\* with recv_all(); the game loop calls recv_all() again and again.
NextDeliver ==
  \/ \E p \in Peers : Construct(p)
  \/ \E p \in Peers :
       connected[p] /\ Send(p, HarnessMsg(p, nSend[p]), MaxLiveSend)
  \/ \E p \in Peers : RecvAll(p)
  \/ ServerThread
  \/ ClientThread
  \/ \E p \in Peers : SendSteps(p)
  \/ \E p \in Peers : RecvSteps(p)

SpecDeliver ==
  /\ Init
  /\ [][NextDeliver]_vars
  /\ WF_vars(ServerThread)
  /\ WF_vars(ClientThread)
  /\ \A p \in Peers :
       WF_vars(SendSteps(p)) /\ WF_vars(RecvSteps(p)) /\ WF_vars(RecvAll(p))

\* The game session: on a healthy connection each side sends messages of
\* the game once it is connected.
NextGame ==
  \/ \E p \in Peers : Construct(p)
  \/ \E p \in Peers : \E m \in GameMsgs(p) :
       connected[p] /\ Send(p, m, MaxGameSend)
  \/ ServerThread
  \/ ClientThread
  \/ \E p \in Peers : SendSteps(p)
  \/ \E p \in Peers : RecvSteps(p)

SpecGame == Init /\ [][NextGame]_vars

\* Records a writer that is not a NetworkPeer puts on the stream.
ForeignRecords == {NOT_JSON, NOT_UTF8, BLANK}

\* The healthy session of the test harness with a writer on the stream that
\* is not a NetworkPeer: its records arrive between those of the peers.
NextForeign ==
  \/ \E p \in Peers : Construct(p)
  \/ \E p \in Peers :
       connected[p] /\ Send(p, HarnessMsg(p, nSend[p]), MaxLiveSend)
  \/ \E p \in Peers : \E rec \in ForeignRecords :
       ForeignWrite(p, rec, MaxForeign)
  \/ ServerThread
  \/ ClientThread
  \/ \E p \in Peers : SendSteps(p)
  \/ \E p \in Peers : RecvSteps(p)

SpecForeign == Init /\ [][NextForeign]_vars

\* A session with a second client: the server of the test harness sends
\* once it is connected and can stop at any moment; a second client is
\* started after the first was accepted.
NextSecond ==
  \/ \E p \in Peers : Construct(p)
  \/ connected["host"] /\ Send("host", ServerMsg(nSend["host"]), MaxLiveSend)
  \/ Stop("host")
  \/ Threads
  \/ SecondClient

SpecSecond == Init /\ [][NextSecond]_vars

\* A receiver whose stream is written byte by byte and read in chunks of
\* any length.
NextFraming ==
  \/ \E b \in Bytes : FrameWrite(b)
  \/ \E k \in 1..MaxStream : FrameRecv(k)

SpecFraming == Init /\ [][NextFraming]_vars

\* The threads of side q are in their blocking calls with nothing to do:
\* the connection thread has ended or waits in accept(), the sender waits on
\* an empty queue and the receiver on a silent connection.
Settled(q) ==
  /\ \/ connPc[q] \in {"idle", "done", "failed"}
     \/ q = "host" /\ connPc[q] = "loop" /\ tcp # "pending" /\ running[q]
  /\ \/ sendPc[q] \in {"idle", "done"}
     \/ sendPc[q] = "guard" /\ outbox[q] = <<>> /\ running[q] /\ connected[q]
  /\ \/ recvPc[q] \in {"idle", "done", "crashed"}
     \/ /\ recvPc[q] = "guard" /\ wire[q] = <<>> /\ running[q] /\ connected[q]
        /\ Readable(q) /\ ~EndClosed(Other(q))

\* The two applications in their menus, from the main menu to the start of
\* the network game, over the transport with its threads.  The steps of the
\* threads are short against the 33 ms of a frame: a frame starts when the
\* threads of both sides have settled.
NextLobby ==
  \/ \E p \in Peers : \E key \in KeysRead(p) :
       \E bound \in BindOutcomes(p, key) :
         \E game_map \in MapOutcomes(p, key) :
           /\ \A q \in Peers : Settled(q)
           /\ AppFrame(p, key, bound, game_map)
  \/ ServerThread
  \/ ClientThread
  \/ \E p \in Peers : SendSteps(p)
  \/ \E p \in Peers : RecvSteps(p)
  \/ \E p \in Peers : RecvEof(p)

SpecLobby == Init /\ [][NextLobby]_vars

\* A player in the course of a match: player 0 (the host's) has no kill yet
\* or is one kill from winning and has all its hp, player 1 has one hp left
\* and may carry a shield.
MatchPlayers(id) ==
  {[NewPlayer(id) EXCEPT !.kills = kills, !.hp = hp, !.has_shield = shield] :
     kills \in IF id = 0 THEN {0, WIN_KILLS - 1} ELSE {0},
     hp \in IF id = 0 THEN {PLAYER_MAX_HP} ELSE {1},
     shield \in IF id = 0 THEN {FALSE} ELSE BOOLEAN}

\* The transport of a session in which both peers are connected with their
\* threads settled and nothing under way.  The histories start here.
Attached ==
  /\ up = [p \in Peers |-> TRUE]
  /\ running = [p \in Peers |-> TRUE]
  /\ connected = [p \in Peers |-> TRUE]
  /\ connSet = [p \in Peers |-> TRUE]
  /\ sockClosed = [p \in Peers |-> FALSE]
  /\ accClosed = FALSE
  /\ retry_count = 0
  /\ connPc = [p \in Peers |-> "done"]
  /\ tcp = "accepted"
  /\ netDown = FALSE
  /\ wire = [p \in Peers |-> <<>>]
  /\ outbox = [p \in Peers |-> <<>>]
  /\ sendPc = [p \in Peers |-> "guard"]
  /\ messages = [p \in Peers |-> <<>>]
  /\ recvPc = [p \in Peers |-> "guard"]
  /\ buffer = [p \in Peers |-> <<>>]
  /\ appPc = [p \in Peers |-> "idle"]
  /\ drained = [p \in Peers |-> <<>>]
  /\ nSend = [p \in Peers |-> 0]
  /\ sentLog = [p \in Peers |-> <<>>]
  /\ arrived = [p \in Peers |-> <<>>]
  /\ gotLog = [p \in Peers |-> <<>>]
  /\ lost = [p \in Peers |-> FALSE]
  /\ nForeign = 0
  /\ nSession = [p \in Peers |-> 1]
  /\ asked = [p \in Peers |-> ""]
  /\ nTick = [p \in Peers |-> 0]
  /\ keys = [p \in Peers |-> [ctl |-> Idle, frame_count |-> 0]]
  /\ framing = [sent |-> <<>>, rest |-> <<>>, buffer |-> <<>>,
                inbox |-> <<>>, joined |-> FALSE]
  /\ second = [up |-> FALSE, connected |-> FALSE, connPc |-> "idle",
               retry_count |-> 0, tcp |-> "none", recvPc |-> "idle"]

\* The two sides in the course of a network game, but for the game itself
\* and what waits in the inboxes: the lobby is behind (one JOIN, one
\* ROSTER, START).
Linked ==
  /\ Attached
  /\ menu = [p \in Peers |->
               [NewMenu EXCEPT !.state = "LOBBY", !.is_host = (p = "host"),
                               !.player_name = TypedName(p),
                               !.host_ip = IF p = "host"
                                           THEN "" ELSE "192.168.1.100"]]
  /\ network = [p \in Peers |->
                  IF p = "host"
                  THEN [NewManager(TRUE, "", TRUE) EXCEPT
                          !.clients = TRUE,
                          !.player_names =
                            PDict(<< <<PInt(1), PStr("Ann")>> >>)]
                  ELSE [NewManager(FALSE, "192.168.1.100", TRUE) EXCEPT
                          !.my_player_id = PInt(1),
                          !.player_names =
                            PDict(<< <<PStr("1"), PStr("Ann")>> >>)]]
  /\ app = [p \in Peers |->
              [in_game |-> TRUE, game_map |-> CHOOSE m \in Maps : TRUE]]
  /\ nJoin = 1

\* The two sides in the course of a network game, nothing received waiting
\* in an inbox.
InGame ==
  /\ Linked
  /\ inbox = [p \in Peers |-> <<>>]

\* The network game in progress: the client has applied the host's last
\* snapshot and mirrors it, and the next snapshot is one or two frames away.
InitMatch ==
  /\ InGame
  /\ \E p0 \in MatchPlayers(0), p1 \in MatchPlayers(1) :
       \E timer \in {SYNC_FRAMES - 2, SYNC_FRAMES - 1} :
         game = [p \in Peers |->
                   [NewGame(p = "host") EXCEPT
                      !.players = <<p0, p1>>,
                      !.state_sync_timer = IF p = "host" THEN timer ELSE 0]]

\* The two applications in the network game over the transport, the users
\* pressing neither R nor ESCAPE; as in the lobby, a frame starts when the
\* threads of both sides have settled.
NextMatch ==
  \/ \E p \in Peers : \E in \in TickInputs :
       /\ \A q \in Peers : Settled(q)
       /\ GameFrame(p, "none", in)
  \/ \E p \in Peers : SendSteps(p)
  \/ \E p \in Peers :
       RecvGuard(p) \/ RecvData(p) \/ RecvTimeout(p) \/ RecvParse(p)

SpecMatch == InitMatch /\ [][NextMatch]_vars

\* The threads of the transport of both sides while the connection stands.
Transport ==
  \/ \E p \in Peers : SendSteps(p)
  \/ \E p \in Peers :
       RecvGuard(p) \/ RecvData(p) \/ RecvTimeout(p) \/ RecvParse(p)

\* The items on the map in the course of a match: none, one next to the
\* spawn point of player 0, or three.  _spawn_item() puts an item in the
\* middle of a tile.
ItemSets ==
  {<<>>,
   <<NewItem(Px(44), Px(36), ITEM_SHIELD)>>,
   <<NewItem(Px(44), Px(36), ITEM_SPEED), NewItem(Px(100), Px(100), ITEM_SHIELD),
     NewItem(Px(100), Px(108), ITEM_VISION)>>}

\* The network game in progress with items: player 0 has gone two pixels
\* to the right of its spawn point, six pixels from the item next to it;
\* the spawn timer has a tick or a full interval to go, or has run out
\* while three items lay on the map.  The client mirrors the host.
InitItems ==
  /\ InGame
  /\ \E items \in ItemSets :
       \E timer \in {1, ITEM_SPAWN_INTERVAL}
                     \cup (IF Len(items) = MAX_ITEMS THEN {0} ELSE {}) :
         game = [p \in Peers |->
                   [NewGame(p = "host") EXCEPT
                      !.players[1].x = Px(38),
                      !.items = items,
                      !.spawn_timer = IF p = "host" THEN timer ELSE @]]

\* The inputs of a tick with items: the user holds no key or the key to
\* the right, and _spawn_item(), if called, finds no empty tile or puts an
\* item on one.
ItemInputs ==
  {[QuietTick EXCEPT !.ctl = ctl, !.spawn = spawn] :
     ctl \in {Idle, [Idle EXCEPT !.dx = 1]},
     spawn \in {NoItem, NewItem(Px(60), Px(36), ITEM_TRIPLE_SHOT),
                NewItem(Px(68), Px(100), ITEM_SHIELD)}}

\* The two applications in the network game with items over the transport.
NextItems ==
  \/ \E p \in Peers : \E in \in ItemInputs :
       /\ \A q \in Peers : Settled(q)
       /\ GameFrame(p, "none", in)
  \/ Transport

SpecItems == InitItems /\ [][NextItems]_vars

\* A player as a side may know it in the course of a match.
KnownPlayers(id) ==
  {[NewPlayer(id) EXCEPT !.kills = kills, !.hp = hp, !.has_shield = shield] :
     kills \in {0, WIN_KILLS - 1},
     hp \in {1, PLAYER_MAX_HP},
     shield \in IF id = 0 THEN {FALSE} ELSE BOOLEAN}

\* The games of a side in the course of a match, with no item on the map or
\* with one.
KnownGames(is_host) ==
  {[NewGame(is_host) EXCEPT !.players = <<p0, p1>>, !.items = items] :
     p0 \in KnownPlayers(0), p1 \in KnownPlayers(1),
     items \in {<<>>, <<NewItem(Px(44), Px(36), ITEM_SHIELD)>>}}

\* The snapshots of the host: of a game in its course, or of the game that
\* the fifth kill of player 0 has just ended.
Snapshots ==
  {SnapshotMsg(h) : h \in KnownGames(TRUE)}
    \cup {SnapshotMsg(CreditKill(h, 0)) :
            h \in {k \in KnownGames(TRUE) :
                     k.players[1].kills = WIN_KILLS - 1 /\ k.items = <<>>}}

\* The player_damage messages of the host: a hit that leaves two hp or none,
\* deadly or not, on either player by either player.
Damages ==
  {DamageMsg([NewPlayer(id) EXCEPT !.hp = hp], died, attacker_id) :
     id \in PlayerIds, hp \in {0, PLAYER_MAX_HP - 1}, died \in BOOLEAN,
     attacker_id \in PlayerIds}

\* The batches network.update() hands to the message loop: one
\* player_damage, or one snapshot that the loop finds twice.
Batches == {<<d>> : d \in Damages} \cup {<<m, m>> : m \in Snapshots}

\* The game g with both players two pixels off their spawn points, a
\* bullet of player 1 in flight and a mine of player 0 on the ground.
Underway(g) ==
  [g EXCEPT !.players[1].x = @ + Px(2), !.players[2].x = @ - Px(2),
            !.bullets = <<1>>, !.mines = <<0>>]

\* The client in the course of a match, at its start or under way, with a
\* batch taken from network.update().
InitApply ==
  /\ Linked
  /\ \E k \in KnownGames(FALSE), batch \in Batches :
     \E g \in {k, Underway(k)} :
       /\ game = [p \in Peers |-> IF p = "host" THEN NewGame(TRUE) ELSE g]
       /\ inbox = [p \in Peers |-> IF p = "host" THEN <<>> ELSE batch]

\* GameInstance.update: one turn of for msg in game_messages on side p.
ApplyNext(p) ==
  /\ game[p].exists
  /\ inbox[p] # <<>>
  /\ game' = [game EXCEPT ![p] = ApplyMessages(@, <<Head(inbox[p])>>)]
  /\ inbox' = [inbox EXCEPT ![p] = Tail(@)]
  /\ gotLog' = [gotLog EXCEPT ![p] = Append(@, Head(inbox[p]))]
  /\ UNCHANGED <<up, running, connected, retry_count, connPc, wire, lost,
                 sockVars, sendVars, recvPc, buffer, arrived, appPc, drained,
                 nForeign, menu, network, app, nSession, nJoin, asked,
                 nTick, keys, framing, second>>

NextApply == ApplyNext("client")

SpecApply == InitApply /\ [][NextApply]_vars

\* The messages of one type among msgs, in order.
OfType(msgs, type) ==
  SelectSeq(msgs, LAMBDA m : Get(m, "type", PNone) = PStr(type))

\* What the user may do with the keys in a tick: nothing, a direction key
\* held with the way free or against a wall, SPACE with the cooldown run
\* out or not, E, a direction key and SPACE together.
Ctls ==
  {Idle, [Idle EXCEPT !.dx = 1], [Idle EXCEPT !.dy = -1, !.blocked = TRUE],
   [Idle EXCEPT !.shoot = TRUE], [Idle EXCEPT !.shoot = TRUE, !.ready = FALSE],
   [Idle EXCEPT !.place_mine = TRUE], [Idle EXCEPT !.dx = -1, !.shoot = TRUE]}

\* The inputs of a tick in which the keys and pyxel.frame_count vary.
InputTicks ==
  {[QuietTick EXCEPT !.ctl = ctl, !.frame_count = frame_count] :
     ctl \in Ctls,
     frame_count \in {IDLE_SYNC_FRAMES - 1, 2 * IDLE_SYNC_FRAMES}}

\* The network game at its start, the players alive or waiting to respawn.
InitInput ==
  /\ InGame
  /\ \E alive \in {[id \in PlayerIds |-> a] : a \in BOOLEAN} :
       game = [p \in Peers |->
                 [NewGame(p = "host") EXCEPT
                    !.players =
                      [i \in 1..Len(@) |->
                         IF alive[@[i].id] THEN @[i]
                         ELSE [@[i] EXCEPT
                                 !.alive = FALSE,
                                 !.respawn_timer = PLAYER_RESPAWN_TIME]]]]

\* The first frames of the two games, the users at the keys.
NextInput ==
  \E p \in Peers : \E in \in InputTicks :
    /\ nTick[p] < MaxInputTick
    /\ Frame(p, "none", in)

SpecInput == InitInput /\ [][NextInput]_vars

\* The inputs of frame number n of a game that the frame counter follows
\* from its start.
PeriodTick(n, ctl) ==
  [QuietTick EXCEPT !.ctl = ctl, !.frame_count = n]

\* The network game at its start.
InitPeriod ==
  /\ InGame
  /\ game = [p \in Peers |-> NewGame(p = "host")]

\* The two games frame by frame at the same rate over two periods of the
\* snapshot: the user of the host moves and shoots in MaxBusy frames at
\* most, the user of the client holds no key.
NextPeriod ==
  \/ \E ctl \in {Idle, [Idle EXCEPT !.dx = 1, !.shoot = TRUE]} :
       /\ nTick["host"] = nTick["client"]
       /\ nTick["host"] < MaxPeriodTick
       /\ ctl # Idle =>
            Len(OfType(sentLog["host"], "player_input")) < MaxBusy
       /\ Frame("host", "none", PeriodTick(nTick["host"] + 1, ctl))
  \/ /\ nTick["client"] < nTick["host"]
     /\ Frame("client", "none", PeriodTick(nTick["client"] + 1, Idle))

SpecPeriod == InitPeriod /\ [][NextPeriod]_vars

\* Where a remote player may be drawn when a tick starts, in tenths of a
\* pixel.
Currents ==
  {<<900, 1000>>, <<1100, 1000>>, <<1000, 400>>, <<700, 600>>, <<699, 600>>,
   <<996, 1000>>, <<995, 1000>>, <<994, 1000>>, <<1000, 1000>>, <<997, 1004>>}

\* The targets of a remote player: none yet, or the position and direction
\* of the last message about it, in tenths of a pixel.
Targets ==
  {PNone} \cup {PList(<<PInt(10 * t[1]), PInt(10 * t[2]), PInt(0)>>) :
                  t \in {<<1000, 1000>>, <<600, 1000>>}}

\* The network game in its course: on each side the remote player is drawn
\* at one place and has its target at another, or none.
InitInterp ==
  /\ InGame
  /\ \E cur \in Currents, target \in Targets :
       game = [p \in Peers |->
                 LET g == NewGame(p = "host")
                     remote == 1 - g.my_player_id
                 IN [g EXCEPT !.players[remote + 1].x = 10 * cur[1],
                              !.players[remote + 1].y = 10 * cur[2],
                              !.remote_targets[remote] = target]]

\* The first frames of the two games, no key held and nothing received.
NextInterp ==
  \E p \in Peers :
    /\ nTick[p] < MaxInputTick
    /\ Frame(p, "none", QuietTick)

SpecInterp == InitInterp /\ [][NextInterp]_vars

\* The network game in progress with player 0 on its last hp at its spawn
\* point and the next snapshot one or two frames away; the client mirrors
\* the host.
InitBatch ==
  /\ InGame
  /\ \E timer \in {SYNC_FRAMES - 2, SYNC_FRAMES - 1} :
       game = [p \in Peers |->
                 [NewGame(p = "host") EXCEPT
                    !.players[1].hp = 1,
                    !.state_sync_timer = IF p = "host" THEN timer ELSE 0]]

\* The inputs of a tick in which the user holds no key or the key to the
\* right, and a bullet or a mine of player 1 may come near player 0.
BatchInputs ==
  {QuietTick, [QuietTick EXCEPT !.ctl = [Idle EXCEPT !.dx = 1]],
   [QuietTick EXCEPT !.bullets = <<[owner_id |-> 1, near |-> 0]>>],
   [QuietTick EXCEPT !.mines = <<[owner_id |-> 1, near |-> 0]>>]}

\* The two applications in the network game over the transport, the host
\* moving and being shot; a frame takes all that has arrived since the
\* last one.
NextBatch ==
  \/ \E p \in Peers : \E in \in BatchInputs :
       /\ \A q \in Peers : Settled(q)
       /\ GameFrame(p, "none", in)
  \/ Transport

SpecBatch == InitBatch /\ [][NextBatch]_vars

\* The network game at its start, player 1 with or without the triple
\* shot on both sides.
InitShot ==
  /\ InGame
  /\ \E triple \in BOOLEAN :
       game = [p \in Peers |->
                 [NewGame(p = "host") EXCEPT
                    !.players[2].has_triple_shot = triple]]

\* The inputs of a tick in which the user presses nothing, SPACE or E, the
\* cooldown of the player's gun having run out.
ShotInputs ==
  {QuietTick, [QuietTick EXCEPT !.ctl = [Idle EXCEPT !.shoot = TRUE]],
   [QuietTick EXCEPT !.ctl = [Idle EXCEPT !.place_mine = TRUE]]}

\* The two applications in the network game over the transport, either
\* user shooting or placing a mine.
NextShot ==
  \/ \E p \in Peers : \E in \in ShotInputs :
       /\ \A q \in Peers : Settled(q)
       /\ GameFrame(p, "none", in)
  \/ Transport

SpecShot == InitShot /\ [][NextShot]_vars

\* The frames of each game after the lobby.
MaxHandoffTick == 1

\* The two sides connected, their menus waiting for the peer: the host has
\* not seen the client yet and the client has not joined.
InitHandoff ==
  /\ Attached
  /\ inbox = [p \in Peers |-> <<>>]
  /\ menu = [p \in Peers |->
               [NewMenu EXCEPT !.state = "CONNECTING",
                               !.is_host = (p = "host"),
                               !.player_name = TypedName(p),
                               !.host_ip = IF p = "host"
                                           THEN "" ELSE "192.168.1.100"]]
  /\ network = [p \in Peers |->
                  NewManager(p = "host",
                             IF p = "host" THEN "" ELSE "192.168.1.100",
                             TRUE)]
  /\ app = [p \in Peers |-> [in_game |-> FALSE, game_map |-> <<>>]]
  /\ nJoin = 0
  /\ game = [p \in Peers |-> NoGame]

\* The inputs of a tick after the start: the key to the right held with
\* SPACE and E pressed; an idle frame whose count is a multiple of 15; a
\* bullet of player 0 that comes near player 1.
HandoffInputs ==
  {[QuietTick EXCEPT !.ctl = [Idle EXCEPT !.dx = 1, !.shoot = TRUE,
                                          !.place_mine = TRUE]],
   [QuietTick EXCEPT !.frame_count = IDLE_SYNC_FRAMES],
   [QuietTick EXCEPT !.bullets = <<[owner_id |-> 0, near |-> 1]>>]}

\* The two applications from the lobby into the network game over the
\* transport: the menus frame by frame, the host's user pressing RETURN, then
\* the games; nobody cancels.
NextHandoff ==
  \/ \E p \in Peers : \E key \in KeysRead(p) \ {"B"} :
       /\ \A q \in Peers : Settled(q)
       /\ AppFrame(p, key, TRUE, CHOOSE m \in Maps : TRUE)
  \/ \E p \in Peers : \E in \in HandoffInputs :
       /\ \A q \in Peers : Settled(q)
       /\ nTick[p] < MaxHandoffTick
       /\ Frame(p, "none", in)
  \/ Transport

SpecHandoff == InitHandoff /\ [][NextHandoff]_vars

\* The frames of a game that starts again.
MaxRestartTick == 3

\* The network game in progress: player 0, one kill from winning, faces
\* right on both sides after its last move; player 1 has one hp left; the
\* next snapshot is two frames away.
InitRestart ==
  /\ InGame
  /\ game = [p \in Peers |->
               [NewGame(p = "host") EXCEPT
                  !.players[1].kills = WIN_KILLS - 1,
                  !.players[1].direction = 1,
                  !.players[2].hp = 1,
                  !.state_sync_timer = IF p = "host" THEN SYNC_FRAMES - 2
                                       ELSE 0]]

\* The two applications in the network game over the transport: a mine of
\* player 0 may go off under player 1 on the host, and the user of the
\* client may press R.
NextRestart ==
  \/ \E in \in {QuietTick,
                 [QuietTick EXCEPT !.mines = <<[owner_id |-> 0, near |-> 1]>>]} :
       /\ \A q \in Peers : Settled(q)
       /\ nTick["host"] < MaxRestartTick
       /\ Frame("host", "none", in)
  \/ \E key \in {"none", "R"} :
       /\ \A q \in Peers : Settled(q)
       /\ nTick["client"] < MaxRestartTick
       /\ Frame("client", key, QuietTick)
  \/ Transport

SpecRestart == InitRestart /\ [][NextRestart]_vars

\* The network game near its end: both players are one kill from winning
\* and have one hp left.
InitEnd ==
  /\ InGame
  /\ game = [p \in Peers |->
               [NewGame(p = "host") EXCEPT
                  !.players[1].kills = WIN_KILLS - 1,
                  !.players[1].hp = 1,
                  !.players[2].kills = WIN_KILLS - 1,
                  !.players[2].hp = 1]]

\* The client's game can take messages: it runs, it is not over and its
\* queue holds some.
CanDrain ==
  /\ app["client"].in_game
  /\ game["client"].exists
  /\ ~game["client"].game_over
  /\ inbox["client"] # <<>>

\* A frame of the client's game that takes the messages waiting.  pyxel
\* calls update() on its own timer, whatever the threads are doing.
ClientDrain ==
  /\ CanDrain
  /\ Frame("client", "none", QuietTick)

\* The end of the match over the transport: on the host a bullet or a mine
\* of either player may come near the other; the client's user holds no
\* key.  The frames of the client that find nothing to take, or find its
\* game over, change nothing here and are left out.
NextEnd ==
  \/ \E in \in TickInputs :
       /\ \A q \in Peers : Settled(q)
       /\ GameFrame("host", "none", in)
  \/ ClientDrain
  \/ Transport

\* The receiver of side p holds bytes to parse.
Parsing(p) == recvPc[p] = "parse" /\ buffer[p] # <<>>

\* pyxel calls update() thirty times a second whatever the threads do, and
\* the scheduler runs every thread that can take a step: weak fairness of
\* the client's frames and of the steps of the sender and the receiver of
\* each side.  For ClientDrain and RecvParse the condition is written with
\* the state predicate that enables the action, CanDrain and Parsing.
EndFairness ==
  /\ []<>~CanDrain \/ []<><<ClientDrain>>_vars
  /\ \A p \in Peers :
       /\ WF_vars(SendSteps(p))
       /\ WF_vars(RecvGuard(p) \/ RecvData(p) \/ RecvTimeout(p))
       /\ []<>~Parsing(p) \/ []<><<RecvParse(p)>>_vars

SpecEnd == InitEnd /\ [][NextEnd]_vars /\ EndFairness

(***************************************************************************)
(* Properties.                                                             *)
(***************************************************************************)
IsPrefix(a, b) == Len(a) <= Len(b) /\ SubSeq(b, 1, Len(a)) = a

\* C1: what the client has obtained from its successive recv_all() calls is
\* always a prefix of what the host's send() calls enqueued: batching up to
\* five messages into one write never reorders, duplicates or skips one.
C1_Fifo == IsPrefix(gotLog["client"], sentLog["host"])

\* The client has obtained more messages than one batch holds.
C1_Witness == Len(gotLog["client"]) > BATCH_MAX

\* C2: a send() call appends its message to the outbox exactly when the peer
\* is connected and otherwise leaves the outbox as it is; in both cases it
\* touches neither the sender loop nor the stream nor the connected flag,
\* and it can return whatever the sockets and the loops are doing.
C2_SendEnqueuesIffConnected ==
  /\ [][\A p \in Peers :
          nSend'[p] # nSend[p] =>
            /\ outbox'[p] = IF connected[p]
                            THEN Append(outbox[p], HarnessMsg(p, nSend[p]))
                            ELSE outbox[p]
            /\ sendPc' = sendPc
            /\ wire' = wire
            /\ connected' = connected]_vars
  /\ [](\A p \in Peers :
          up[p] /\ nSend["host"] + nSend["client"] < MaxSend =>
            ENABLED Send(p, HarnessMsg(p, nSend[p]), MaxSend))

\* One peer has had a send() call dropped and a later one accepted.
C2_Witness ==
  \E p \in Peers : nSend[p] = 2 /\ Len(sentLog[p]) = 1 /\ outbox[p] # <<>>

\* C3: the messages the receiver put into the inbox are, in arrival order,
\* those earlier recv_all() calls returned, then those the running call has
\* taken, then those still queued: each is returned by exactly one call.
C3_DrainExactlyOnce ==
  \A p \in Peers : arrived[p] = gotLog[p] \o drained[p] \o inbox[p]

\* recv_all() is running after an earlier call returned messages, it has
\* taken a message, and the receiver, in the middle of a chunk, has enqueued
\* another one.
C3_Witness ==
  /\ appPc["client"] = "recv_all"
  /\ gotLog["client"] # <<>>
  /\ drained["client"] # <<>>
  /\ inbox["client"] # <<>>
  /\ recvPc["client"] = "parse"

\* The connection thread of p has marked the peer connected.
Marked(p) == sendPc[p] # "idle"

\* C4: on a connection that is not lost, with neither side stopping, every
\* message a peer's send() accepted is written by its sender loop, enqueued
\* by the other peer's receiver loop and returned by a recv_all() there:
\* from some moment on, what the other peer's recv_all() calls have returned
\* is exactly what send() accepted.
C4_Delivered ==
  \A p \in Peers : <>[](gotLog[Other(p)] = sentLog[p])

\* The client's reply has reached the host's game loop after the host's
\* message reached the client's.
C4_Witness ==
  /\ gotLog["host"] # <<>>
  /\ gotLog["host"] = sentLog["client"]
  /\ gotLog["client"] # <<>>
  /\ gotLog["client"] = sentLog["host"]

\* C5: every message of the game the receiver has decoded is the message
\* that was passed to send() at the same place in the sender's sequence:
\* same type, same field names, same keys, same values.
C5_RoundTrip ==
  \A p \in Peers : \A i \in 1..Len(arrived[p]) :
    /\ i <= Len(sentLog[Other(p)])
    /\ arrived[p][i] = sentLog[Other(p)][i]

\* The receiver has nothing left to read from the stream.
ReadAll(p) ==
  /\ wire[p] = <<>>
  /\ buffer[p] = <<>>
  /\ outbox[Other(p)] = <<>>
  /\ messages[Other(p)] = <<>>

\* C6: records that fail to parse cost nothing but themselves: a connected
\* peer's receiver loop is running, and when nothing is left to read every
\* well-formed record written to the peer has been enqueued, in order.
C6_BadRecordDiscarded ==
  \A p \in Peers :
    /\ connected[p] => recvPc[p] \in {"start", "guard", "recv", "parse"}
    /\ IsPrefix(arrived[p], sentLog[Other(p)])
    /\ ReadAll(p) => arrived[p] = sentLog[Other(p)]

C8_OtherLoopExits ==
  /\ [][\A p \in Peers :
          lost[p] =>
            /\ ~connected[p]
            /\ (sendPc[p] = "guard" /\ sendPc'[p] # "guard"
                  => sendPc'[p] = "done")
            /\ (recvPc[p] = "guard" /\ recvPc'[p] # "guard"
                  => recvPc'[p] = "done")]_vars
  /\ \A p \in Peers :
       lost[p] ~> (sendPc[p] = "done" /\ recvPc[p] \in {"done", "crashed"})

\* The receiver of a running peer reported the peer's close while the sender
\* was inside a round, and the sender has ended after it.
C8_Witness ==
  \E p \in Peers :
    /\ lost[p]
    /\ running[p]
    /\ recvPc[p] = "done"
    /\ sendPc[p] = "done"
    /\ outbox[p] # <<>>

\* The three threads of p have ended (a loop that was never started counts
\* once the connection thread, which alone starts it, has ended).
Terminated(p) ==
  /\ connPc[p] \in {"done", "failed"}
  /\ sendPc[p] \in {"idle", "done"}
  /\ recvPc[p] \in {"idle", "done", "crashed"}

\* C9: after stop(), in whatever state the peer was, its connection thread,
\* its sender loop and its receiver loop all end.
C9_StopTerminates ==
  \A p \in Peers : (up[p] /\ ~running[p]) ~> Terminated(p)

\* A peer stopped while connected, with both loops running, has all its
\* threads ended.
C9_Witness ==
  \E p \in Peers :
    /\ ~running[p]
    /\ Terminated(p)
    /\ sendPc[p] = "done"
    /\ recvPc[p] = "done"
    /\ ~lost[Other(p)]

\* Both peers are running and nothing has been stopped.
NoStop == \A p \in Peers : up[p] => running[p]

\* C10: the client never counts more than max_retries failed attempts; an
\* attempt made while the host listens succeeds and, unless a peer is
\* stopped, leads to both peers being connected; a client whose budget is
\* used up has ended its connection thread without a connection and is never
\* connected.
C10_BoundedRetries ==
  /\ [](retry_count <= max_retries)
  /\ [](connPc["client"] = "failed" =>
          ~connected["client"] /\ ~Marked("client"))
  /\ [][connPc["client"] = "failed" => connPc'["client"] = "failed"]_vars
  /\ [][connPc["client"] = "connect" /\ Listening /\ ~sockClosed["client"]
          /\ connPc'["client"] # "connect"
          => connPc'["client"] = "est" /\ retry_count' = retry_count]_vars
  /\ (connPc["client"] = "connect" /\ Listening /\ NoStop)
       ~> ((connected["host"] /\ connected["client"]) \/ ~NoStop)

\* The client has given up after max_retries attempts although the host
\* has come up in the meantime.
C10_Witness ==
  /\ connPc["client"] = "failed"
  /\ Listening

\* C11: the host serves one connection per session: a client that connects
\* after the first client was accepted is rejected and never reaches the
\* connected state.
C11_SecondRejected == ~second.connected

RECURSIVE Records(_)
\* The records of a byte sequence: the runs of bytes each newline ends.
Records(b) ==
  IF ~HasNL(b) THEN <<>>
  ELSE <<SubSeq(b, 1, FirstNL(b) - 1)>>
         \o Records(SubSeq(b, FirstNL(b) + 1, Len(b)))

RECURSIVE LastRecord(_)
\* What follows the last newline of a byte sequence.
LastRecord(b) ==
  IF ~HasNL(b) THEN b ELSE LastRecord(SubSeq(b, FirstNL(b) + 1, Len(b)))

RECURSIVE Decoded(_)
\* The messages of a sequence of records, each taken whole.
Decoded(recs) ==
  IF recs = <<>> THEN <<>>
  ELSE (IF IsJson(Head(recs))
        THEN <<PInt(DigitsValue(Strip(Head(recs))))>> ELSE <<>>)
         \o Decoded(Tail(recs))

\* The bytes the receiver has read so far.
Consumed == SubSeq(framing.sent, 1, Len(framing.sent) - Len(framing.rest))

\* C12: however the reads cut the stream, the inbox holds the messages of
\* the complete records read so far, each as if it had arrived whole, and
\* the buffer holds the incomplete record after the last newline, which is
\* not delivered before its newline arrives.
C12_Framing ==
  /\ framing.inbox = Decoded(Records(Consumed))
  /\ framing.buffer = LastRecord(Consumed)
  /\ ~HasNL(framing.buffer)

\* Two messages have been enqueued, one of them from a record that a read
\* had cut in the middle, and everything written has been read.
C12_Witness ==
  /\ framing.joined
  /\ Len(framing.inbox) = 2
  /\ framing.rest = <<>>

\* The keys of a dict.
DictKeys(d) == {d[2][i][1] : i \in 1..Len(d[2])}

\* C13: the n-th ROSTER the host broadcasts in a session has exactly n + 1
\* entries, with the ids 0..n: the host is id 0 and the n-th JOIN got id n.
C13_RosterIds ==
  LET rosters == OfType(sentLog["host"], "player_list")
  IN \A n \in 1..Len(rosters) :
       LET players == Get(rosters[n], "players", PNone)
       IN /\ DictLen(players) = n + 1
          /\ DictKeys(players) = {PInt(id) : id \in 0..n}

\* C14: once the client has applied every ROSTER the host has broadcast in
\* the session, the client's roster is the host's roster: the same ids with
\* the same names.
C14_SameRoster ==
  LET sent == OfType(sentLog["host"], "player_list")
      applied == OfType(gotLog["client"], "player_list")
  IN /\ network["host"].exists
     /\ network["client"].exists
     /\ sent # <<>>
     /\ Len(applied) = Len(sent)
     => network["client"].player_names = network["host"].player_names

\* C15: a client that has started the network game plays on the map of the
\* host, which has started it too: the same tiles in the same cells.
C15_SameMap ==
  app["client"].in_game =>
    /\ app["host"].in_game
    /\ app["client"].game_map = app["host"].game_map

\* Both sides have started the network game on a generated map.
C15_Witness ==
  /\ app["client"].in_game
  /\ app["host"].in_game
  /\ app["host"].game_map \in Maps

\* The session of side p is torn down: the manager is discarded, the peer
\* is stopped with its sockets closed, and the menu shows the main menu.
TornDown(p) ==
  /\ network[p] = NoNetwork
  /\ menu[p].state = "MAIN_MENU"
  /\ ~running[p]
  /\ ~connected[p]
  /\ up[p] => sockClosed[p]

\* The frame has found the peer: the menu has moved from connecting to the
\* lobby, the side awaits the peer no more.
FoundPeer(p) ==
  /\ menu[p].state = "LOBBY"
  /\ network[p].exists
  /\ IF menu[p].is_host THEN network[p].clients ELSE network[p].host_address

C17_BindFailure ==
  asked["host"] = "bind_failed" =>
    /\ ~NewManager(TRUE, "", FALSE).connection_established
    /\ ~NewManager(TRUE, "", FALSE).peer
    /\ network["host"] = NoNetwork
    /\ menu["host"].state = "MAIN_MENU"
    /\ menu["host"].error_message = "Failed to bind port 9999"
    /\ ~running["host"]
    /\ ~Listening
    /\ connPc["host"] \in {"idle", "done"}

\* The host's bind() has failed in the last frame of the host.
C17_Witness ==
  /\ asked["host"] = "bind_failed"
  /\ nSession["host"] = 1

\* The messages of msgs that are a player_damage (EVENT_DAMAGE) naming the
\* player with this id as the one hit.
DamageOf(msgs, id) ==
  SelectSeq(OfType(msgs, "player_damage"),
            LAMBDA m : Get(m, "player_id", PNone) = PInt(id))

\* The messages of msgs that are a player_damage reporting a death with the
\* player with this id as the attacker.
KillBy(msgs, id) ==
  SelectSeq(OfType(msgs, "player_damage"),
            LAMBDA m : /\ Get(m, "died", PBool(FALSE)) = PBool(TRUE)
                       /\ Get(m, "attacker_id", PNone) = PInt(id))

\* C18: in a network game, a step of the client in which a player's hp
\* decreases, a player dies or a kill is credited is a frame that takes from
\* the inbox, and applies, a player_damage message of the host about that
\* player (as the one hit, or as the attacker of a death) or a game_state
\* snapshot of the host; the client's own bullets and mines change none of
\* these, and the client reports no hit of its own (it sends no
\* player_damage).
C18_ClientMirrors ==
  [][game["client"].exists /\ game'["client"].exists =>
       /\ \A i \in 1..Len(game["client"].players) :
            LET before == game["client"].players[i]
                after == game'["client"].players[i]
                taken == SubSeq(gotLog'["client"],
                                Len(gotLog["client"]) + 1,
                                Len(gotLog'["client"]))
            IN /\ taken \in {<<>>, inbox["client"]}
               /\ (after.hp < before.hp \/ (before.alive /\ ~after.alive)) =>
                    DamageOf(taken, before.id) \o OfType(taken, "game_state")
                      # <<>>
               /\ after.kills > before.kills =>
                    KillBy(taken, before.id) \o OfType(taken, "game_state")
                      # <<>>
       /\ OfType(sentLog'["client"], "player_damage") = <<>>]_vars

\* The client has applied a player_damage of the host: its copy of player 1,
\* alive with one hp when the match began, is dead.
C18_Witness ==
  /\ game["client"].exists
  /\ ~game["client"].players[2].alive
  /\ DamageOf(gotLog["client"], 1) # <<>>
  /\ nTick["client"] > 0

\* C19: only the host resolves the win condition: whenever the client's
\* game is over with winner W, the host's game of the same round is over
\* with the same winner W.
C19_HostEndsFirst ==
  (/\ game["client"].exists
   /\ game["host"].exists
   /\ game["client"].round = game["host"].round
   /\ game["client"].game_over) =>
    /\ game["host"].game_over
    /\ game["host"].winner_id = game["client"].winner_id

\* The hits a player has taken between two values of it in one tick: a
\* shield used up, or the hp lost.
HitsTaken(before, after) ==
  (IF before.has_shield /\ ~after.has_shield /\ before.alive THEN 1 ELSE 0)
  + (IF after.hp < before.hp THEN before.hp - after.hp ELSE 0)

\* C20: in a tick of the connected host, each bullet hit and each mine
\* trigger the host resolves puts exactly one player_damage message in the
\* send queue in that tick: for every player, as many player_damage messages
\* about it are queued in the tick as it has taken hits, each with the hp
\* the hit has left, the died flag of the hit and the id of the attacker
\* (the other player), whether or not a snapshot is due in the tick.
C20_OneDamagePerHit ==
  [][(/\ nTick'["host"] = nTick["host"] + 1
      /\ connected["host"]
      /\ game["host"].exists /\ game'["host"].exists
      /\ ~game["host"].game_over) =>
       LET queued == SubSeq(sentLog'["host"], Len(sentLog["host"]) + 1,
                            Len(sentLog'["host"]))
       IN /\ outbox'["host"] = outbox["host"] \o queued
          /\ \A i \in 1..Len(game["host"].players) :
               LET before == PlayerUpdate(game["host"].players[i])
                   after == game'["host"].players[i]
                   about == DamageOf(queued, before.id)
               IN /\ Len(about) = HitsTaken(before, after)
                  /\ \A k \in 1..Len(about) :
                       /\ Get(about[k], "hp", PNone) = PInt(after.hp)
                       /\ Get(about[k], "died", PNone)
                            = PBool(before.alive /\ ~after.alive)
                       /\ Get(about[k], "attacker_id", PNone)
                            \in {PInt(id) : id \in PlayerIds \ {before.id}}]_vars

\* The host has resolved a hit on player 0 that has left it two hp, and has
\* queued the player_damage that says so.
C20_Witness ==
  /\ nTick["host"] > 0
  /\ game["host"].exists
  /\ game["host"].players[1].hp = PLAYER_MAX_HP - 1
  /\ \E k \in 1..Len(sentLog["host"]) :
       /\ Get(sentLog["host"][k], "type", PNone) = PStr("player_damage")
       /\ Get(sentLog["host"][k], "player_id", PNone) = PInt(0)
       /\ Get(sentLog["host"][k], "hp", PNone) = PInt(PLAYER_MAX_HP - 1)
       /\ Get(sentLog["host"][k], "died", PNone) = PBool(FALSE)

\* The messages side p passes to send() in a step.
Queued(p) ==
  SubSeq(sentLog'[p], Len(sentLog[p]) + 1, Len(sentLog'[p]))

\* A step is a tick of the game of side p, connected and not over.
RunningTick(p) ==
  /\ nTick'[p] = nTick[p] + 1
  /\ connected[p]
  /\ game[p].exists /\ game'[p].exists
  /\ ~game[p].game_over

\* The messages of msgs of this type that carry the position and the type
\* of the item, the type under this key.
AboutItem(msgs, type, key, item) ==
  SelectSeq(OfType(msgs, type),
            LAMBDA m : /\ Get(m, "x", PNone) = PInt(item.x)
                       /\ Get(m, "y", PNone) = PInt(item.y)
                       /\ Get(m, key, PNone) = PInt(item.type))

\* C21: in a tick of the host, every item a player picks up (an item of
\* the map that the tick takes off it) puts exactly one item_pickup message
\* in the send queue in that tick, with the position and the type of the
\* item and the id of a player within reach of it.
C21_PickupReported ==
  [][RunningTick("host") =>
       \A k \in 1..Len(game["host"].items) :
         LET item == game["host"].items[k]
             about == AboutItem(Queued("host"), "item_pickup", "item_type",
                                item)
         IN (\A j \in 1..Len(game'["host"].items) :
               game'["host"].items[j] # item) =>
              /\ Len(about) = 1
              /\ \E i \in 1..Len(game'["host"].players) :
                   /\ check_pickup(item, game'["host"].players[i])
                   /\ Get(about[1], "player_id", PNone)
                        = PInt(game'["host"].players[i].id)]_vars

\* C22: in a tick of the host, the item_spawn messages put in the send
\* queue are as many as the items the tick has put on the map, and each new
\* item has exactly one item_spawn message with its position and type,
\* whether or not an item is picked up in the same tick.
C22_SpawnReported ==
  [][RunningTick("host") =>
       LET fresh == {j \in 1..Len(game'["host"].items) :
                       \A k \in 1..Len(game["host"].items) :
                         game["host"].items[k] # game'["host"].items[j]}
       IN /\ Len(OfType(Queued("host"), "item_spawn")) = Cardinality(fresh)
          /\ \A j \in fresh :
               Len(AboutItem(Queued("host"), "item_spawn", "item_type",
                             game'["host"].items[j])) = 1]_vars

\* C23: a kill the client has credited by applying a player_damage with
\* died = true is never taken back: once the client has applied such a
\* message naming a player as the attacker, no step of the same game lowers
\* that player's kill count on the client.
C23_KillNotRolledBack ==
  [][(/\ game["client"].exists /\ game'["client"].exists
      /\ game'["client"].round = game["client"].round) =>
       \A i \in 1..Len(game["client"].players) :
         KillBy(gotLog["client"], game["client"].players[i].id) # <<>> =>
           game'["client"].players[i].kills
             >= game["client"].players[i].kills]_vars

\* The message a turn of the message loop of side p applies in a step.
Applied(p) == gotLog'[p][Len(gotLog'[p])]

\* A step is a turn of the message loop of side p on a message of this
\* type.
Applies(p, type) ==
  /\ Len(gotLog'[p]) = Len(gotLog[p]) + 1
  /\ inbox[p] # <<>> /\ inbox'[p] = Tail(inbox[p])
  /\ Get(Applied(p), "type", PNone) = PStr(type)

\* C24: when the client applies a player_damage with died = false, the hp
\* of the player named becomes the hp of the message and nothing else of
\* the game changes: no kills, no alive flag, no position, no game over.
C24_HitOnlyLowersHp ==
  [][(/\ Applies("client", "player_damage")
      /\ Get(Applied("client"), "died", PNone) = PBool(FALSE)) =>
       game'["client"] =
         [game["client"] EXCEPT
            !.players[Get(Applied("client"), "player_id", PNone)[2] + 1].hp =
              Get(Applied("client"), "hp", PNone)[2]]]_vars

\* The client has applied a hit that is not deadly on player 1: the player
\* has the two hp of the message.
C24_Witness ==
  /\ Len(gotLog["client"]) = 1
  /\ Get(gotLog["client"][1], "type", PNone) = PStr("player_damage")
  /\ Get(gotLog["client"][1], "died", PNone) = PBool(FALSE)
  /\ Get(gotLog["client"][1], "player_id", PNone) = PInt(1)
  /\ Get(gotLog["client"][1], "hp", PNone) = PInt(PLAYER_MAX_HP - 1)
  /\ game["client"].players[2].hp = PLAYER_MAX_HP - 1
  /\ game["client"].players[1].kills = WIN_KILLS - 1
  /\ ~game["client"].game_over

\* The fields of a game that a snapshot sets.
SnapshotFields(g) ==
  <<[i \in 1..Len(g.players) |->
       <<g.players[i].hp, g.players[i].kills, g.players[i].alive,
         g.players[i].has_shield, g.players[i].has_triple_shot,
         g.players[i].has_speed_boost, g.players[i].has_full_vision>>],
    g.remote_targets, g.items, g.game_over, g.winner_id>>

\* C26: applying the same snapshot twice in a row is idempotent: when the
\* client applies a game_state equal to the message it has applied just
\* before, every field a snapshot sets (hp, kills, alive and power-up flags
\* of each player, the interpolation targets, the items, game_over and the
\* winner) keeps its value.
C26_SnapshotIdempotent ==
  [][(/\ Applies("client", "game_state")
      /\ gotLog["client"] # <<>>
      /\ gotLog["client"][Len(gotLog["client"])] = Applied("client")) =>
       SnapshotFields(game'["client"]) = SnapshotFields(game["client"])]_vars

\* The client has applied twice a snapshot with an item on the map and four
\* kills of player 0.
C26_Witness ==
  /\ Len(gotLog["client"]) = 2
  /\ gotLog["client"][1] = gotLog["client"][2]
  /\ Get(gotLog["client"][2], "type", PNone) = PStr("game_state")
  /\ Len(game["client"].items) = 1
  /\ game["client"].players[1].kills = WIN_KILLS - 1
  /\ game["client"].remote_targets[0] # PNone

\* The messages side p takes from network.update() in a step.
Taken(p) ==
  SubSeq(gotLog'[p], Len(gotLog[p]) + 1, Len(gotLog'[p]))

\* The players that have reached the win threshold in a snapshot.
WinnersIn(msg) ==
  {id \in PlayerIds :
     \E k \in 1..Len(Get(msg, "players", PList(<<>>))[2]) :
       LET pdata == Get(msg, "players", PList(<<>>))[2][k]
       IN /\ Get(pdata, "id", PNone) = PInt(id)
          /\ Get(pdata, "kills", PInt(0))[2] >= WIN_KILLS}

\* C25: when the client applies a snapshot in which a player's kills have
\* reached WIN_KILLS, the client's game is over with that player as winner
\* once the frame has applied it.
C25_SnapshotEndsGame ==
  [][(/\ nTick'["client"] = nTick["client"] + 1
      /\ game["client"].exists /\ game'["client"].exists) =>
       \A k \in 1..Len(Taken("client")) :
         Get(Taken("client")[k], "type", PNone) = PStr("game_state") =>
           \A id \in WinnersIn(Taken("client")[k]) :
             /\ game'["client"].game_over
             /\ game'["client"].winner_id = PInt(id)]_vars

\* The client has applied a snapshot with five kills of player 0 and its
\* game is over, player 0 the winner.
C25_Witness ==
  /\ \E k \in 1..Len(gotLog["client"]) :
       /\ Get(gotLog["client"][k], "type", PNone) = PStr("game_state")
       /\ WinnersIn(gotLog["client"][k]) = {0}
  /\ game["client"].exists
  /\ game["client"].game_over
  /\ game["client"].winner_id = PInt(0)

\* C27: while the network game runs, the host puts a snapshot in the send
\* queue in the ticks 30, 60, ... of the game and in no other tick, whatever
\* else the ticks in between have sent, and the client never sends one.
C27_SnapshotPeriod ==
  [][/\ RunningTick("host") =>
          Len(OfType(Queued("host"), "game_state"))
            = IF nTick'["host"] % SYNC_FRAMES = 0 THEN 1 ELSE 0
     /\ OfType(sentLog'["client"], "game_state") = <<>>]_vars

\* Sixty ticks on both sides: the host has sent two snapshots, and inputs
\* and heartbeats besides; the client has sent heartbeats.
C27_Witness ==
  /\ nTick["host"] = 2 * SYNC_FRAMES
  /\ nTick["client"] = 2 * SYNC_FRAMES
  /\ Len(OfType(sentLog["host"], "game_state")) = 2
  /\ OfType(sentLog["host"], "player_input") # <<>>
  /\ OfType(sentLog["host"], "bullet_spawn") # <<>>
  /\ OfType(sentLog["host"], "position_sync") # <<>>
  /\ OfType(sentLog["client"], "position_sync") # <<>>

\* The keys of a tick hold a movement or an action.
Busy(ctl) == ctl.dx # 0 \/ ctl.dy # 0 \/ ctl.shoot \/ ctl.place_mine

\* The messages of this type about the player of side p itself among those
\* p passes to send() in a step.
OwnSent(p, type) ==
  SelectSeq(OfType(Queued(p), type),
            LAMBDA m : Get(m, "player_id", PNone) = PInt(game[p].my_player_id))

\* C28: in a tick of a network game a side sends one player_input for its
\* own player if the keys hold a movement or an action and none otherwise;
\* one position_sync if the keys are idle and the frame count is a multiple
\* of 15 and none otherwise; and no such message for another player.  So at
\* most one of the two is sent in a tick.
C28_InputOrHeartbeat ==
  [][\A p \in Peers :
       RunningTick(p) =>
         /\ Len(OwnSent(p, "player_input"))
              = IF Busy(keys'[p].ctl) THEN 1 ELSE 0
         /\ Len(OwnSent(p, "position_sync"))
              = IF ~Busy(keys'[p].ctl)
                   /\ keys'[p].frame_count % IDLE_SYNC_FRAMES = 0
                THEN 1 ELSE 0
         /\ Len(OfType(Queued(p), "player_input"))
              = Len(OwnSent(p, "player_input"))
         /\ Len(OfType(Queued(p), "position_sync"))
              = Len(OwnSent(p, "position_sync"))]_vars

\* The host has run a tick with SPACE pressed and has sent one
\* player_input; the client has run an idle tick at frame 30 and has sent
\* one position_sync.
C28_Witness ==
  /\ nTick["host"] = 1 /\ nTick["client"] = 1
  /\ keys["host"].ctl.shoot /\ keys["host"].ctl.dx = 0
  /\ Len(OfType(sentLog["host"], "player_input")) = 1
  /\ OfType(sentLog["host"], "position_sync") = <<>>
  /\ keys["client"].ctl = Idle
  /\ keys["client"].frame_count = 2 * IDLE_SYNC_FRAMES
  /\ Len(OfType(sentLog["client"], "position_sync")) = 1
  /\ OfType(sentLog["client"], "player_input") = <<>>

\* The square of the distance from a player to a target.
Distance2(pl, target) ==
  (target[2][1][2] - pl.x) * (target[2][1][2] - pl.x)
    + (target[2][2][2] - pl.y) * (target[2][2][2] - pl.y)

\* after is pl moved 0.3 of the way to the target on each axis.
Smoothed(pl, target, after) ==
  /\ after.x = pl.x + Smooth(target[2][1][2] - pl.x)
  /\ after.y = pl.y + Smooth(target[2][2][2] - pl.y)

\* A step is a tick of side p that has received nothing, and players[i] is
\* a remote player with a target on that side.
Interpolates(p, i) ==
  /\ RunningTick(p)
  /\ Taken(p) = <<>>
  /\ i \in 1..Len(game[p].players)
  /\ game[p].players[i].id # game[p].my_player_id
  /\ game[p].remote_targets[game[p].players[i].id] # PNone

\* C29 as stated: in a tick, a remote player farther than 50 pixels from
\* its target is put on the target, and one at 50 pixels or less moves 0.3
\* of the remaining distance on each axis.
C29_SnapOrSmooth ==
  [][\A p \in Peers : \A i \in 1..2 :
       Interpolates(p, i) =>
         LET pl == game[p].players[i]
             after == game'[p].players[i]
             target == game[p].remote_targets[pl.id]
         IN IF Distance2(pl, target) > Px(SNAP_DISTANCE) * Px(SNAP_DISTANCE)
            THEN after.x = target[2][1][2] /\ after.y = target[2][2][2]
            ELSE Smoothed(pl, target, after)]_vars

\* C29 amended: in a tick, a remote player farther than 50 pixels from its
\* target is put on the target; one farther than half a pixel and at 50
\* pixels or less moves 0.3 of the remaining distance on each axis; one
\* within half a pixel stays where it is.
C29_SnapSmoothOrStay ==
  [][\A p \in Peers : \A i \in 1..2 :
       Interpolates(p, i) =>
         LET pl == game[p].players[i]
             after == game'[p].players[i]
             target == game[p].remote_targets[pl.id]
         IN IF Distance2(pl, target) > Px(SNAP_DISTANCE) * Px(SNAP_DISTANCE)
            THEN after.x = target[2][1][2] /\ after.y = target[2][2][2]
            ELSE IF 4 * Distance2(pl, target) > Px(1) * Px(1)
            THEN Smoothed(pl, target, after)
            ELSE after.x = pl.x /\ after.y = pl.y]_vars

\* The client has run a tick with player 0 drawn at (90, 100) and its target
\* at (100, 100): the player is at (93, 100).
C29_Witness ==
  /\ nTick["client"] = 1
  /\ game["client"].remote_targets[0]
       = PList(<<PInt(Px(100)), PInt(Px(100)), PInt(0)>>)
  /\ game["client"].players[1].x = Px(93)
  /\ game["client"].players[1].y = Px(100)

\* The position and direction a message carries for the player with this
\* id, as a target: those of a player_input or position_sync of the player,
\* those of the player's entry in a game_state; PNone for any other message.
PositionIn(msg, id) ==
  LET type == Get(msg, "type", PNone)
      players_data == Get(msg, "players", PList(<<>>))[2]
      about == SelectSeq(players_data,
                         LAMBDA pdata : Get(pdata, "id", PNone) = PInt(id))
      from == IF type = PStr("game_state") THEN about[1] ELSE msg
  IN IF \/ /\ type \in {PStr("player_input"), PStr("position_sync")}
           /\ Get(msg, "player_id", PNone) = PInt(id)
        \/ type = PStr("game_state") /\ about # <<>>
     THEN PList(<<Get(from, "x", PNone), Get(from, "y", PNone),
                  Get(from, "direction", PNone)>>)
     ELSE PNone

\* C30: last write wins for the position of a remote player: when a tick of
\* the client has applied the messages it has taken, the target of player 0
\* is the position carried by the last message among them that carries one
\* for player 0 (player_input, position_sync or game_state), whatever the
\* kinds of the messages.
C30_LastPositionWins ==
  [][RunningTick("client") =>
       LET about == SelectSeq(Taken("client"),
                              LAMBDA m : PositionIn(m, 0) # PNone)
       IN about # <<>> =>
            game'["client"].remote_targets[0]
              = PositionIn(about[Len(about)], 0)]_vars

\* C36: once stop() has returned on a peer, is_connected() is false on it
\* in every later state, however stop() interleaves with the connection
\* thread.
C36_StoppedStaysDisconnected ==
  \A p \in Peers : up[p] /\ ~running[p] => ~connected[p]

\* C32: every frame of the network game of a side, whatever the state of
\* the game, first takes everything that is in the inbound queue: the queue
\* is empty after the frame and its messages have been handed to the game.
C32_EveryTickDrains ==
  [][\A p \in Peers :
       (/\ nTick'[p] = nTick[p] + 1
        /\ game[p].exists /\ game[p].use_network) =>
         /\ inbox'[p] = <<>>
         /\ Taken(p) = inbox[p]]_vars

\* The bullets (or mines) of this list that the player with this id owns.
OwnedBy(owners, id) == SelectSeq(owners, LAMBDA o : o = id)

\* The INPUT messages among msgs with this action (shoot, place_mine) set.
WithAction(msgs, action) ==
  SelectSeq(OfType(msgs, "player_input"),
            LAMBDA m : Get(m, action, PBool(FALSE)) = PBool(TRUE))

\* Nothing is under way between the two sides: every message sent has been
\* applied.
Quiet ==
  /\ \A q \in Peers : Settled(q)
  /\ \A q \in Peers : inbox[q] = <<>> /\ outbox[q] = <<>>

\* C38: in a network game the client's world holds one bullet per barrel
\* for each shot of the client's tank and one mine for each mine it has
\* placed, and once every message has been applied the host's world holds
\* as many of them.
C38_OneObjectPerAction ==
  LET mine == game["client"].players[2]
      barrels == IF mine.has_triple_shot THEN 3 ELSE 1
      shots == WithAction(sentLog["client"], "shoot")
      placed == WithAction(sentLog["client"], "place_mine")
  IN /\ Len(OwnedBy(game["client"].bullets, 1)) = barrels * Len(shots)
     /\ Len(OwnedBy(game["client"].mines, 1)) = Len(placed)
     /\ Quiet =>
          /\ OwnedBy(game["host"].bullets, 1)
               = OwnedBy(game["client"].bullets, 1)
          /\ OwnedBy(game["host"].mines, 1)
               = OwnedBy(game["client"].mines, 1)

\* C33: when the client applies a game_state, nothing of its game changes
\* but the hp, kills, alive flag and power-up flags of the players, the
\* interpolation targets of the players other than its own, the items, and
\* game_over and the winner: the position and the direction of every
\* player, its own included, the bullets and the mines stay as they are.
C33_SnapshotTouchesOnly ==
  [][Applies("client", "game_state") =>
       LET g == game["client"]
           h == game'["client"]
       IN h = [g EXCEPT
                 !.players =
                   [i \in 1..Len(g.players) |->
                      [g.players[i] EXCEPT
                         !.hp = h.players[i].hp,
                         !.kills = h.players[i].kills,
                         !.alive = h.players[i].alive,
                         !.has_shield = h.players[i].has_shield,
                         !.has_triple_shot = h.players[i].has_triple_shot,
                         !.has_speed_boost = h.players[i].has_speed_boost,
                         !.has_full_vision = h.players[i].has_full_vision]],
                 !.remote_targets =
                   [id \in PlayerIds |->
                      IF id # g.my_player_id THEN h.remote_targets[id]
                      ELSE g.remote_targets[id]],
                 !.items = h.items,
                 !.game_over = h.game_over,
                 !.winner_id = h.winner_id]]_vars

\* The client, with both players off their spawn points, a bullet in flight
\* and a mine on the ground, has applied a snapshot that carries the spawn
\* points and other hp: the target of player 0 is set, the players, the
\* bullet and the mine are where they were.
C33_Witness ==
  /\ Len(gotLog["client"]) = 1
  /\ Get(gotLog["client"][1], "type", PNone) = PStr("game_state")
  /\ game["client"].remote_targets[0]
       = PList(<<PInt(NewPlayer(0).x), PInt(NewPlayer(0).y), PInt(0)>>)
  /\ game["client"].players[1].x = NewPlayer(0).x + Px(2)
  /\ game["client"].players[2].x = NewPlayer(1).x - Px(2)
  /\ game["client"].players[2].hp = 1
  /\ game["client"].bullets = <<1>>
  /\ game["client"].mines = <<0>>

\* C31: a direction received for the remote player applies at once: when a
\* tick of a side has applied the messages it has taken, the direction of
\* the other side's player is the direction carried by the last message
\* among them that carries one for that player (player_input, position_sync
\* or game_state).
C31_DirectionImmediate ==
  [][\A p \in Peers :
       RunningTick(p) =>
         LET id == 1 - game[p].my_player_id
             about == SelectSeq(Taken(p), LAMBDA m : PositionIn(m, id) # PNone)
         IN about # <<>> =>
              PInt(game'[p].players[id + 1].direction)
                = PositionIn(about[Len(about)], id)[2][3]]_vars

\* C35: the client's menu goes from connecting to the lobby only in a frame
\* that finds the peer connected and hands the JOIN to the transport.
C35_JoinsWhenConnected ==
  [][(/\ menu["client"].state = "CONNECTING"
      /\ menu'["client"].state = "LOBBY") =>
       /\ connected["client"]
       /\ OfType(Queued("client"), "player_join") # <<>>]_vars

\* C40: the host enters the network game from the lobby only in a frame
\* that finds its peer connected and hands START to the transport.
C40_StartNeedsPeer ==
  [][(~app["host"].in_game /\ app'["host"].in_game) =>
       /\ connected["host"]
       /\ OfType(Queued("host"), "start_game") # <<>>]_vars

\* The lobby messages and the game messages.
LobbyTypes == {PStr("player_join"), PStr("player_list"), PStr("start_game")}

\* C37: no game message is taken from the inbound queue by a frame of the
\* client's menu, where no game instance exists to apply it: every game
\* message the host has sent after START is handed to the client's game.
C37_NoneLostAtHandoff ==
  [][~app["client"].in_game =>
       \A k \in 1..Len(Taken("client")) :
         Get(Taken("client")[k], "type", PNone) \in LobbyTypes]_vars

\* The messages a client sends: JOIN, INPUT and the position heartbeat.
ClientTypes ==
  {PStr("player_join"), PStr("player_input"), PStr("position_sync")}

\* C34: every message the client passes to send() is a JOIN, or an INPUT or
\* position heartbeat of its own player (id 1); ROSTER, START, the events
\* (bullet and mine spawn, damage, explosion, item spawn and pickup) and the
\* snapshot are passed to send() by the host alone.
C34_KindsFollowDirection ==
  \A k \in 1..Len(sentLog["client"]) :
    LET msg == sentLog["client"][k]
        type == Get(msg, "type", PNone)
    IN /\ type \in ClientTypes
       /\ type # PStr("player_join") =>
            Get(msg, "player_id", PNone) = PInt(1)

\* The client has joined and has sent an INPUT with a shot and a mine or a
\* heartbeat in its game; the host has sent the ROSTER, START, and a
\* bullet_spawn for the shot it has applied.
C34_Witness ==
  /\ OfType(sentLog["client"], "player_join") # <<>>
  /\ WithAction(sentLog["client"], "shoot") # <<>>
  /\ OfType(sentLog["host"], "player_list") # <<>>
  /\ OfType(sentLog["host"], "start_game") # <<>>
  /\ OfType(sentLog["host"], "bullet_spawn") # <<>>
  /\ Len(sentLog["client"]) >= 2

\* The game of side p is over with the player with this id as winner.
Won(p, id) ==
  /\ game[p].exists
  /\ game[p].game_over
  /\ game[p].winner_id = PInt(id)

\* C39: when the host's game is over with a winner and the connection
\* stays up, the client's game is over with the same winner sooner or later.
C39_SameWinnerInTheEnd ==
  /\ Won("host", 0) ~> Won("client", 0)
  /\ Won("host", 1) ~> Won("client", 1)
====
